---- MODULE Spec2Model ----
(***************************************************************************)
(* Model of the response parser (src/utils/toonParser.ts, latest revision  *)
(* in the file: lines 437-973) and of the suggestion state kept by the     *)
(* add-in's App component (src/App.tsx).                                    *)
(*                                                                         *)
(* A JavaScript string is a sequence of characters; a character is a       *)
(* one-element token.  The Bengali letters are written "ka", "kha", "ga",  *)
(* "gha": each stands for one UTF-16 code unit outside ASCII.  A text is   *)
(* the sequence of its lines (the string split on "\n").                   *)
(***************************************************************************)
EXTENDS Integers, Sequences, FiniteSets, TLC

(***************************************************************************)
(* Characters                                                              *)
(***************************************************************************)
Digits == <<"0", "1", "2", "3", "4", "5", "6", "7", "8", "9">>

LowerLetters == <<"a", "b", "c", "d", "e", "f", "g", "h", "i", "j", "k", "l", "m",
                  "n", "o", "p", "q", "r", "s", "t", "u", "v", "w", "x", "y", "z">>

UpperLetters == <<"A", "B", "C", "D", "E", "F", "G", "H", "I", "J", "K", "L", "M",
                  "N", "O", "P", "Q", "R", "S", "T", "U", "V", "W", "X", "Y", "Z">>

Range(f) == {f[i] : i \in DOMAIN f}

\* \s of the regular expressions and the characters String.prototype.trim removes
IsSpace(c) == c \in {" ", "\t"}

\* \d
IsDigit(c) == c \in Range(Digits)

\* [a-zA-Z]
IsLatin(c) == c \in Range(LowerLetters) \cup Range(UpperLetters)

IndexIn(seq, c) == CHOOSE i \in DOMAIN seq : seq[i] = c

DigitValue(c) == IndexIn(Digits, c) - 1

LowerChar(c) == IF c \in Range(UpperLetters) THEN LowerLetters[IndexIn(UpperLetters, c)] ELSE c

UpperChar(c) == IF c \in Range(LowerLetters) THEN UpperLetters[IndexIn(LowerLetters, c)] ELSE c

(***************************************************************************)
(* String.prototype methods used by the parser                             *)
(***************************************************************************)
toLowerCase(s) == [i \in DOMAIN s |-> LowerChar(s[i])]

toUpperCase(s) == [i \in DOMAIN s |-> UpperChar(s[i])]

\* s.trim()
trim(s) ==
  LET keep == {i \in DOMAIN s : ~IsSpace(s[i])}
  IN  IF keep = {} THEN <<>>
      ELSE LET lo == CHOOSE i \in keep : \A j \in keep : i <= j
               hi == CHOOSE i \in keep : \A j \in keep : j <= i
           IN  SubSeq(s, lo, hi)

\* s.replace(/\s+/g, ' ')
RECURSIVE collapseSpaces(_)
collapseSpaces(s) ==
  IF s = <<>> THEN <<>>
  ELSE IF IsSpace(Head(s))
       THEN IF Len(s) > 1 /\ IsSpace(s[2])
            THEN collapseSpaces(Tail(s))
            ELSE <<" ">> \o collapseSpaces(Tail(s))
       ELSE <<Head(s)>> \o collapseSpaces(Tail(s))

\* s.startsWith(p)
startsWith(s, p) == Len(p) <= Len(s) /\ SubSeq(s, 1, Len(p)) = p

\* s.includes(p)
includes(s, p) == \E i \in 1..(Len(s) - Len(p) + 1) : SubSeq(s, i, i + Len(p) - 1) = p

\* s.indexOf(c) for a one-character c, 1-based; 0 when c does not occur (JavaScript: -1)
indexOf(s, c) ==
  LET at == {i \in DOMAIN s : s[i] = c}
  IN  IF at = {} THEN 0 ELSE CHOOSE i \in at : \A j \in at : i <= j

\* s.split(c) for a one-character separator c
RECURSIVE split(_, _)
split(s, c) ==
  LET i == indexOf(s, c)
  IN  IF i = 0 THEN <<s>>
      ELSE <<SubSeq(s, 1, i - 1)>> \o split(SubSeq(s, i + 1, Len(s)), c)

\* arr.map(p => p.trim())
trimAll(parts) == [i \in DOMAIN parts |-> trim(parts[i])]

\* arr.filter(Boolean) on strings: the empty string is falsy
filterNonEmpty(parts) == SelectSeq(parts, LAMBDA p : p # <<>>)

\* arr.slice(0, n)
slice(arr, n) == IF n <= 0 THEN <<>> ELSE SubSeq(arr, 1, IF n < Len(arr) THEN n ELSE Len(arr))

\* the value of a string of decimal digits
RECURSIVE digitsValue(_)
digitsValue(ds) ==
  IF ds = <<>> THEN 0 ELSE 10 * digitsValue(SubSeq(ds, 1, Len(ds) - 1)) + DigitValue(ds[Len(ds)])

\* the longest prefix of s made of digits
RECURSIVE digitPrefix(_)
digitPrefix(s) ==
  IF s = <<>> \/ ~IsDigit(Head(s)) THEN <<>> ELSE <<Head(s)>> \o digitPrefix(Tail(s))

\* parseInt(s) || 0 : leading white space skipped, an optional sign, then the
\* decimal digits up to the first other character; NaN (no digit) gives 0.
\* (No input of the model spells a 0x prefix.)
parseIntOr0(s) ==
  LET t    == trim(s)
      neg  == t # <<>> /\ Head(t) = "-"
      body == IF t # <<>> /\ Head(t) \in {"-", "+"} THEN Tail(t) ELSE t
      ds   == digitPrefix(body)
  IN  IF ds = <<>> THEN 0 ELSE IF neg THEN 0 - digitsValue(ds) ELSE digitsValue(ds)

\* /^\d+$/.test(s)
allDigits(s) == s # <<>> /\ \A i \in DOMAIN s : IsDigit(s[i])

\* /^[a-zA-Z]+$/.test(s)
allLatin(s) == s # <<>> /\ \A i \in DOMAIN s : IsLatin(s[i])

(***************************************************************************)
(* Texts: a text is the non-empty sequence of its lines; the empty string  *)
(* is the text of one empty line.                                          *)
(***************************************************************************)
IsBlank(line) == trim(line) = <<>>

trimStart(s) ==
  LET keep == {i \in DOMAIN s : ~IsSpace(s[i])}
  IN  IF keep = {} THEN <<>>
      ELSE SubSeq(s, CHOOSE i \in keep : \A j \in keep : i <= j, Len(s))

trimEnd(s) ==
  LET keep == {i \in DOMAIN s : ~IsSpace(s[i])}
  IN  IF keep = {} THEN <<>>
      ELSE SubSeq(s, 1, CHOOSE i \in keep : \A j \in keep : j <= i)

\* text.trim() : "\n" is white space too, so blank first and last lines go
trimText(lines) ==
  LET keep == {i \in DOMAIN lines : ~IsBlank(lines[i])}
  IN  IF keep = {} THEN << <<>> >>
      ELSE LET lo == CHOOSE i \in keep : \A j \in keep : i <= j
               hi == CHOOSE i \in keep : \A j \in keep : j <= i
           IN  IF lo = hi THEN <<trim(lines[lo])>>
               ELSE <<trimStart(lines[lo])>> \o SubSeq(lines, lo + 1, hi - 1)
                    \o <<trimEnd(lines[hi])>>

\* text.includes(token) for a token without "\n"
textIncludes(lines, token) == \E i \in DOMAIN lines : includes(lines[i], token)

\* raw.split(/^@/m) : the text is cut before every line that starts with "@",
\* the "@" is dropped, and the piece before the cut keeps its final "\n"
RECURSIVE splitAtSign(_, _)
splitAtSign(lines, cur) ==
  IF lines = <<>> THEN <<cur>>
  ELSE IF startsWith(Head(lines), <<"@">>)
       THEN <<cur \o << <<>> >> >> \o splitAtSign(Tail(lines), <<Tail(Head(lines))>>)
       ELSE splitAtSign(Tail(lines), cur \o <<Head(lines)>>)

\* a split that keeps the first non-blank piece only
splitSectionsFirstOnly(lines) ==
  LET pieces == SelectSeq(splitAtSign(lines, <<>>),
                          LAMBDA piece : \E i \in DOMAIN piece : ~IsBlank(piece[i]))
  IN  IF pieces = <<>> THEN <<>> ELSE <<pieces[1]>>

\* raw.split(/^@/m).filter(s => s.trim())
splitSections(lines) ==
  SelectSeq(splitAtSign(lines, <<>>), LAMBDA piece : \E i \in DOMAIN piece : ~IsBlank(piece[i]))

(***************************************************************************)
(* Values                                                                  *)
(***************************************************************************)
Null == [null |-> TRUE]

\* {} : an object without any of the keys the parser reads
EmptyObject == [none |-> TRUE]

Has(obj, key) == key \in DOMAIN obj

\* obj.key is truthy, for a string-valued key
Truthy(obj, key) == Has(obj, key) /\ obj[key] # <<>>

With(obj, key, val) == [k \in DOMAIN obj \cup {key} |-> IF k = key THEN val ELSE obj[k]]

Min(a, b) == IF a < b THEN a ELSE b

(***************************************************************************)
(* normalizeText, removeDuplicates, validateSpellingErrors                 *)
(***************************************************************************)
\* normalizeText without the lower-casing
normalizeTextCaseSensitive(text) == collapseSpaces(trim(text))

normalizeText(text) == collapseSpaces(toLowerCase(trim(text)))

RECURSIVE dedupLoop(_, _, _)
dedupLoop(arr, key, seen) ==
  IF arr = <<>> THEN <<>>
  ELSE LET k == normalizeText(Head(arr)[key])
       IN  IF k \in seen
           THEN dedupLoop(Tail(arr), key, seen)
           ELSE <<Head(arr)>> \o dedupLoop(Tail(arr), key, seen \cup {k})

\* a filter that keeps the last entry of each key instead of the first
removeDuplicatesKeepsLast(arr, key) ==
  LET reversed(a) == [i \in 1..Len(a) |-> a[Len(a) + 1 - i]]
  IN  reversed(dedupLoop(reversed(arr), key, {}))

\* removeDuplicates(arr, item => item[key])
removeDuplicates(arr, key) == dedupLoop(arr, key, {})

\* keyFn(item).trim() throws a TypeError when an item has no string under key
removeDuplicatesThrows(arr, key) == \E i \in DOMAIN arr : ~Has(arr[i], key)

\* the filter of validateSpellingErrors without its Latin-letters test
spellingVerdictNoLatin(err) ==
  LET word == trim(err.wrong)
  IN  IF word = <<>> \/ Len(word) < 2 THEN "drop"
      ELSE IF allDigits(word) THEN "drop"
      ELSE IF ~Has(err, "suggestions") THEN "throws"
      ELSE IF Len(err.suggestions) = 0 THEN "drop"
      ELSE "keep"

\* the filter callback of validateSpellingErrors; reading err.suggestions.length
\* of an entry without suggestions throws a TypeError
spellingVerdict(err) ==
  LET word == trim(err.wrong)
  IN  IF word = <<>> \/ Len(word) < 2 THEN "drop"
      ELSE IF allDigits(word) THEN "drop"
      ELSE IF allLatin(word) THEN "drop"
      ELSE IF ~Has(err, "suggestions") THEN "throws"
      ELSE IF Len(err.suggestions) = 0 THEN "drop"
      ELSE "keep"

validateSpellingErrors(errors, maxAllowed) ==
  LET unique  == removeDuplicates(errors, "wrong")
      limited == slice(unique, maxAllowed)
  IN  SelectSeq(limited, LAMBDA err : spellingVerdict(err) = "keep")

validateSpellingErrorsThrows(errors, maxAllowed) ==
  \/ removeDuplicatesThrows(errors, "wrong")
  \/ LET limited == slice(removeDuplicates(errors, "wrong"), maxAllowed)
     IN  \E i \in DOMAIN limited : spellingVerdict(limited[i]) = "throws"

(***************************************************************************)
(* String literals of the parser.  A Bengali letter or sign is one token.  *)
(***************************************************************************)
BnYes == <<"ha", "virama", "ya", "aa", "candrabindu">>

BnExample == <<"u", "da", "aa", "ha", "ra", "nna">>

BnFormat == <<"pha", "ra", "ma", "virama", "ya", "aa", "tta">>

DefaultIssue == <<"ba", "i", "ra", "aa", "ma", " ", "ca", "i", "ha", "virama", "na">>

DefaultReason == <<"u", "na", "virama", "na", "ta", " ", "sha", "ba", "virama", "da">>

IssueKeys == { <<"i", "s", "s", "u", "e">>, <<"sa", "ma", "sa", "virama", "ya", "aa">> }

CurrentKeys == { <<"c", "u", "r">>, <<"c", "u", "r", "r", "e", "n", "t">>,
                 <<"ba", "ra", "virama", "ta", "ma", "aa", "na">>,
                 <<"c", "u", "r", "r", "e", "n", "t", "s", "e", "n", "t", "e", "n", "c", "e">> }

CorrectedKeys == { <<"f", "i", "x">>, <<"f", "i", "x", "e", "d">>,
                   <<"c", "o", "r", "r", "e", "c", "t", "e", "d">>,
                   <<"sa", "anusvara", "sha", "o", "dha", "i", "ta">>,
                   <<"c", "o", "r", "r", "e", "c", "t", "e", "d", "s", "e", "n", "t", "e", "n", "c", "e">> }

ExplanationKeys == { <<"e", "x", "p">>, <<"e", "x", "p", "l", "a", "n", "a", "t", "i", "o", "n">>,
                     <<"ba", "virama", "ya", "aa", "kha", "virama", "ya", "aa">> }

PositionKeys == { <<"p", "o", "s">>, <<"p", "o", "s", "i", "t", "i", "o", "n">> }

TypeKeys == { <<"t", "y", "p", "e">>, <<"c", "o", "n", "t", "e", "n", "t", "t", "y", "p", "e">>,
              <<"dha", "ra", "na">>, <<"tta", "aa", "i", "pa">> }

DescriptionKeys == { <<"d", "e", "s", "c">>, <<"d", "e", "s", "c", "r", "i", "p", "t", "i", "o", "n">>,
                     <<"ba", "ra", "virama", "nna", "na", "aa">> }

MissingKeys == { <<"m", "i", "s", "s", "i", "n", "g">>,
                 <<"m", "i", "s", "s", "i", "n", "g", "e", "l", "e", "m", "e", "n", "t", "s">>,
                 <<"a", "na", "u", "pa", "sa", "virama", "tha", "i", "ta">> }

TipsKeys == { <<"t", "i", "p", "s">>, <<"s", "u", "g", "g", "e", "s", "t", "i", "o", "n", "s">>,
              <<"pa", "ra", "aa", "ma", "ra", "virama", "sha">>,
              <<"sa", "aa", "ja", "e", "sha", "na">> }

\* the key and the value of a "key: value" line t, cut at its first ":"
keyOf(t) == trim(toLowerCase(SubSeq(t, 1, indexOf(t, ":") - 1)))

valOf(t) == trim(SubSeq(t, indexOf(t, ":") + 1, Len(t)))

\* t.split('|').map(p => p.trim())
pipeParts(t) == trimAll(split(t, "|"))

\* parts[1].split(',').map(s => s.trim()).filter(Boolean)
commaList(field) == filterNonEmpty(trimAll(split(field, ",")))

(***************************************************************************)
(* Section parsers                                                         *)
(***************************************************************************)
parseSpellingLine(line) ==
  LET t == trim(line)
  IN  IF t = <<>> \/ startsWith(t, <<"#">>) \/ ~includes(t, <<"|">>) THEN <<>>
      ELSE LET parts == pipeParts(t)
           IN  IF Len(parts) >= 3 /\ parts[1] # <<>> /\ parts[2] # <<>>
               THEN LET wrong       == parts[1]
                        suggestions == commaList(parts[2])
                        position    == parseIntOr0(parts[3])
                    IN  IF Len(wrong) < 2 THEN <<>>
                        ELSE IF Len(suggestions) = 0 THEN <<>>
                        ELSE << [wrong |-> wrong, suggestions |-> suggestions,
                                 position |-> position] >>
               ELSE <<>>

RECURSIVE parseSpellingLines(_)
parseSpellingLines(lines) ==
  IF lines = <<>> THEN <<>>
  ELSE parseSpellingLine(Head(lines)) \o parseSpellingLines(Tail(lines))

\* one iteration of the loop of parseMixingLines over the state
\* (result, corrections, inCorrections)
parseMixingLine(st, line) ==
  LET t == trim(line)
  IN  IF t = <<>> \/ startsWith(t, <<"#">>) THEN st
      ELSE IF includes(toUpperCase(t), <<"C", "O", "R", "R", "E", "C", "T", "I", "O", "N", "S">>)
      THEN [st EXCEPT !.inCorrections = TRUE]
      ELSE IF st.inCorrections /\ includes(t, <<"|">>)
      THEN LET parts == pipeParts(t)
           IN  IF Len(parts) >= 4 /\ parts[1] # <<>> /\ parts[2] # <<>>
               THEN [st EXCEPT !.corrections = @ \o
                      << [current |-> parts[1], suggestion |-> parts[2],
                          type |-> parts[3], position |-> parseIntOr0(parts[4])] >>]
               ELSE st
      ELSE IF includes(t, <<":">>)
      THEN LET key == keyOf(t)
               val == valOf(t)
           IN  IF key = <<"d", "e", "t", "e", "c", "t", "e", "d">>
               THEN [st EXCEPT !.result = With(@, "detected",
                       toLowerCase(val) = <<"t", "r", "u", "e">> \/ val = BnYes)]
               ELSE IF key = <<"s", "t", "y", "l", "e">>
               THEN [st EXCEPT !.result = With(@, "recommendedStyle", val)]
               ELSE IF key = <<"r", "e", "a", "s", "o", "n">>
               THEN [st EXCEPT !.result = With(@, "reason", val)]
               ELSE st
      ELSE st

\* the loop; the set constructor binds the state after a line to its value, so
\* that it is evaluated once
RECURSIVE parseMixingLoop(_, _)
parseMixingLoop(st, lines) ==
  IF lines = <<>> THEN st
  ELSE CHOOSE out \in {parseMixingLoop(next, Tail(lines)) :
                         next \in {parseMixingLine(st, Head(lines))}} : TRUE

parseMixingLines(lines) ==
  LET st == parseMixingLoop([result |-> [detected |-> FALSE], corrections |-> <<>>,
                             inCorrections |-> FALSE], lines)
  IN  IF Len(st.corrections) > 0 THEN With(st.result, "corrections", st.corrections)
      ELSE st.result

\* pushCurrent of parsePunctuationLines over the state (issues, current):
\* current is reset only when a record is pushed
pushCurrent(st) ==
  LET current == st.current
  IN  IF Truthy(current, "issue") \/ Truthy(current, "currentSentence")
      THEN [issues |-> st.issues \o
              << [issue |-> IF Truthy(current, "issue") THEN current.issue ELSE DefaultIssue,
                  currentSentence |-> IF Truthy(current, "currentSentence")
                                      THEN current.currentSentence ELSE <<>>,
                  correctedSentence |-> IF Truthy(current, "correctedSentence")
                                        THEN current.correctedSentence
                                        ELSE IF Truthy(current, "currentSentence")
                                        THEN current.currentSentence ELSE <<>>,
                  explanation |-> IF Truthy(current, "explanation")
                                  THEN current.explanation ELSE <<>>,
                  position |-> IF Has(current, "position") THEN current.position ELSE 0] >>,
            current |-> EmptyObject]
      ELSE st

\* t.match(/^-{3,}$/)
isSeparator(t) == Len(t) >= 3 /\ \A i \in DOMAIN t : t[i] = "-"

parsePunctuationLine(st, line) ==
  LET t == trim(line)
  IN  IF isSeparator(t) THEN pushCurrent(st)
      ELSE IF t = <<>> \/ startsWith(t, <<"#">>) THEN st
      ELSE IF indexOf(t, ":") > 1
      THEN LET key == keyOf(t)
               val == valOf(t)
           IN  IF key \in IssueKeys THEN [st EXCEPT !.current = With(@, "issue", val)]
               ELSE IF key \in CurrentKeys
               THEN [st EXCEPT !.current = With(@, "currentSentence", val)]
               ELSE IF key \in CorrectedKeys
               THEN [st EXCEPT !.current = With(@, "correctedSentence", val)]
               ELSE IF key \in ExplanationKeys
               THEN [st EXCEPT !.current = With(@, "explanation", val)]
               ELSE IF key \in PositionKeys
               THEN [st EXCEPT !.current = With(@, "position", parseIntOr0(val))]
               ELSE st
      ELSE st

RECURSIVE parsePunctuationLoop(_, _)
parsePunctuationLoop(st, lines) ==
  IF lines = <<>> THEN st
  ELSE CHOOSE out \in {parsePunctuationLoop(next, Tail(lines)) :
                         next \in {parsePunctuationLine(st, Head(lines))}} : TRUE

MaxPunctuation == 15

parsePunctuationLines(lines) ==
  LET st == pushCurrent(parsePunctuationLoop([issues |-> <<>>, current |-> EmptyObject],
                                             lines))
  IN  slice(st.issues, MaxPunctuation)

isBoilerplate(t) == startsWith(t, BnFormat) \/ startsWith(t, BnExample)

MaxEuphony == 10

parseEuphonyLine(line) ==
  LET t == trim(line)
  IN  IF t = <<>> \/ startsWith(t, <<"#">>) \/ isBoilerplate(t) THEN <<>>
      ELSE IF includes(t, <<"|">>)
      THEN LET parts == pipeParts(t)
           IN  IF Len(parts) >= 3 /\ parts[1] # <<>> /\ parts[2] # <<>>
               THEN LET current     == parts[1]
                        suggestions == commaList(parts[2])
                        reason      == IF parts[3] # <<>> THEN parts[3] ELSE DefaultReason
                        position    == IF Len(parts) >= 4 /\ parts[4] # <<>>
                                       THEN parseIntOr0(parts[4]) ELSE 0
                    IN  IF Len(current) >= 2 /\ Len(suggestions) > 0
                        THEN << [current |-> current, suggestions |-> suggestions,
                                 reason |-> reason, position |-> position] >>
                        ELSE <<>>
               ELSE <<>>
      ELSE <<>>

RECURSIVE parseEuphonyLoop(_)
parseEuphonyLoop(lines) ==
  IF lines = <<>> THEN <<>>
  ELSE parseEuphonyLine(Head(lines)) \o parseEuphonyLoop(Tail(lines))

parseEuphonyLines(lines) == slice(parseEuphonyLoop(lines), MaxEuphony)

\* parseFourFieldLine content with three fields: position 0 when the fourth
\* field is missing
parseFourFieldLineThreeFields(line, third) ==
  LET t == trim(line)
  IN  IF t = <<>> \/ startsWith(t, <<"#">>) \/ isBoilerplate(t) \/ ~includes(t, <<"|">>)
      THEN <<>>
      ELSE LET parts == pipeParts(t)
           IN  IF Len(parts) >= 3 /\ parts[1] # <<>> /\ parts[2] # <<>>
               THEN << [k \in {"current", "suggestion", third, "position"} |->
                          IF k = "current" THEN parts[1]
                          ELSE IF k = "suggestion" THEN parts[2]
                          ELSE IF k = "position"
                          THEN (IF Len(parts) >= 4 THEN parseIntOr0(parts[4]) ELSE 0)
                          ELSE parts[3]] >>
               ELSE <<>>

\* the fields of an accepted line of the STYLE or TONE section; third names
\* the third field ("type" or "reason")
parseFourFieldLine(line, third) ==
  LET t == trim(line)
  IN  IF t = <<>> \/ startsWith(t, <<"#">>) \/ isBoilerplate(t) \/ ~includes(t, <<"|">>)
      THEN <<>>
      ELSE LET parts == pipeParts(t)
           IN  IF Len(parts) >= 4 /\ parts[1] # <<>> /\ parts[2] # <<>>
               THEN << [k \in {"current", "suggestion", third, "position"} |->
                          IF k = "current" THEN parts[1]
                          ELSE IF k = "suggestion" THEN parts[2]
                          ELSE IF k = "position" THEN parseIntOr0(parts[4])
                          ELSE parts[3]] >>
               ELSE <<>>

RECURSIVE parseFourFieldLoop(_, _)
parseFourFieldLoop(lines, third) ==
  IF lines = <<>> THEN <<>>
  ELSE parseFourFieldLine(Head(lines), third) \o parseFourFieldLoop(Tail(lines), third)

MaxStyle == 30

MaxTone == 30

parseStyleLines(lines) == slice(parseFourFieldLoop(lines, "type"), MaxStyle)

parseToneLines(lines) == slice(parseFourFieldLoop(lines, "reason"), MaxTone)

MaxContentItems == 5

parseContentLine(result, line) ==
  LET t == trim(line)
  IN  IF t = <<>> \/ startsWith(t, <<"#">>) \/ startsWith(t, <<"@">>) THEN result
      ELSE IF indexOf(t, ":") > 1
      THEN LET key == keyOf(t)
               val == valOf(t)
           IN  IF key \in TypeKeys THEN [result EXCEPT !.contentType = val]
               ELSE IF key \in DescriptionKeys THEN [result EXCEPT !.description = val]
               ELSE IF key \in MissingKeys
               THEN [result EXCEPT !.missingElements = slice(commaList(val), MaxContentItems)]
               ELSE IF key \in TipsKeys
               THEN [result EXCEPT !.suggestions = slice(commaList(val), MaxContentItems)]
               ELSE result
      ELSE result

RECURSIVE parseContentLoop(_, _)
parseContentLoop(result, lines) ==
  IF lines = <<>> THEN result
  ELSE CHOOSE out \in {parseContentLoop(next, Tail(lines)) :
                         next \in {parseContentLine(result, Head(lines))}} : TRUE

parseContentLines(lines) ==
  LET result == parseContentLoop([contentType |-> <<>>, description |-> <<>>,
                                  missingElements |-> <<>>, suggestions |-> <<>>], lines)
  IN  IF \/ result.contentType # <<>>
         \/ result.description # <<>>
         \/ Len(result.missingElements) > 0
         \/ Len(result.suggestions) > 0
      THEN result
      ELSE Null

(***************************************************************************)
(* parseUnifiedToon and parseAIResponse                                    *)
(***************************************************************************)
EmptyResponse ==
  [spellingErrors |-> <<>>, languageStyleMixing |-> [detected |-> FALSE],
   punctuationIssues |-> <<>>, euphonyImprovements |-> <<>>, styleConversions |-> <<>>,
   toneConversions |-> <<>>, contentAnalysis |-> Null]

\* the header names of the switch in parseUnifiedToon
HSpelling == <<"S", "P", "E", "L", "L", "I", "N", "G">>

HMixing == <<"M", "I", "X", "I", "N", "G">>

HPunctuation == <<"P", "U", "N", "C", "T", "U", "A", "T", "I", "O", "N">>

HEuphony == <<"E", "U", "P", "H", "O", "N", "Y">>

HStyle == <<"S", "T", "Y", "L", "E">>

HTone == <<"T", "O", "N", "E">>

HContent == <<"C", "O", "N", "T", "E", "N", "T">>

\* a loop body whose switch sends an unknown header to the spelling parser
parseSectionUnknownAsSpelling(result, section) ==
  LET lines   == trimText(section)
      header  == toUpperCase(trim(lines[1]))
      content == Tail(lines)
  IN  IF header = HMixing
      THEN [result EXCEPT !.languageStyleMixing = parseMixingLines(content)]
      ELSE IF header = HPunctuation
      THEN [result EXCEPT !.punctuationIssues = parsePunctuationLines(content)]
      ELSE IF header = HEuphony
      THEN [result EXCEPT !.euphonyImprovements = parseEuphonyLines(content)]
      ELSE IF header = HStyle
      THEN [result EXCEPT !.styleConversions = parseStyleLines(content)]
      ELSE IF header = HTone
      THEN [result EXCEPT !.toneConversions = parseToneLines(content)]
      ELSE IF header = HContent
      THEN [result EXCEPT !.contentAnalysis = parseContentLines(content)]
      ELSE [result EXCEPT !.spellingErrors = parseSpellingLines(content)]

\* the body of the for loop of parseUnifiedToon for one section
parseSection(result, section) ==
  LET lines   == trimText(section)
      header  == toUpperCase(trim(lines[1]))
      content == Tail(lines)
  IN  IF header = HSpelling
      THEN [result EXCEPT !.spellingErrors = parseSpellingLines(content)]
      ELSE IF header = HMixing
      THEN [result EXCEPT !.languageStyleMixing = parseMixingLines(content)]
      ELSE IF header = HPunctuation
      THEN [result EXCEPT !.punctuationIssues = parsePunctuationLines(content)]
      ELSE IF header = HEuphony
      THEN [result EXCEPT !.euphonyImprovements = parseEuphonyLines(content)]
      ELSE IF header = HStyle
      THEN [result EXCEPT !.styleConversions = parseStyleLines(content)]
      ELSE IF header = HTone
      THEN [result EXCEPT !.toneConversions = parseToneLines(content)]
      ELSE IF header = HContent
      THEN [result EXCEPT !.contentAnalysis = parseContentLines(content)]
      ELSE result

RECURSIVE parseSections(_, _)
parseSections(result, sections) ==
  IF sections = <<>> THEN result
  ELSE CHOOSE out \in {parseSections(next, Tail(sections)) :
                         next \in {parseSection(result, Head(sections))}} : TRUE

MaxSpellingErrors == 50

\* a cap that ignores the word count
maxErrorsFlat(wordCount) == MaxSpellingErrors

\* wordCount is <<>> when the argument is not passed and <<w>> when it is;
\* Math.ceil(w * 0.5) is (w + 1) \div 2 for a natural number w
maxErrors(wordCount) ==
  IF wordCount # <<>> /\ wordCount[1] # 0
  THEN Min(MaxSpellingErrors, (wordCount[1] + 1) \div 2)
  ELSE MaxSpellingErrors

\* removeDuplicates on the corrections of the mixing report, when it has any
dedupMixing(mixing) ==
  IF Has(mixing, "corrections")
  THEN [mixing EXCEPT !.corrections = removeDuplicates(@, "current")]
  ELSE mixing

parseUnifiedToon(text, wordCount) ==
  LET parsed == parseSections(EmptyResponse, splitSections(text))
  IN  [parsed EXCEPT
         !.spellingErrors      = validateSpellingErrors(@, maxErrors(wordCount)),
         !.toneConversions     = removeDuplicates(@, "current"),
         !.styleConversions    = removeDuplicates(@, "current"),
         !.euphonyImprovements = removeDuplicates(@, "current"),
         !.languageStyleMixing = dedupMixing(@)]

(***************************************************************************)
(* A raw response is its text (lines) together with doc, the value that    *)
(* JSON.parse returns for the text of its JSON document.  The text of a    *)
(* JSON document is taken to be one line, payloadLine(doc): a brace, the   *)
(* primary key strings of the document between quotes, a brace.  JSON.parse*)
(* succeeds on that line and on a scalar literal, and throws a SyntaxError *)
(* on every other text.                                                    *)
(***************************************************************************)
RECURSIVE quoteKeys(_, _)
quoteKeys(arr, key) ==
  IF arr = <<>> THEN <<>>
  ELSE (IF Has(Head(arr), key) THEN <<"\"">> \o Head(arr)[key] \o <<"\"">> ELSE <<>>)
       \o quoteKeys(Tail(arr), key)

field(obj, key, default) == IF Has(obj, key) THEN obj[key] ELSE default

payloadLine(doc) ==
  <<"{">>
  \o quoteKeys(field(doc, "spellingErrors", <<>>), "wrong")
  \o quoteKeys(field(doc, "punctuationIssues", <<>>), "currentSentence")
  \o quoteKeys(field(doc, "euphonyImprovements", <<>>), "current")
  \o quoteKeys(field(doc, "styleConversions", <<>>), "current")
  \o quoteKeys(field(doc, "toneConversions", <<>>), "current")
  \o quoteKeys(field(field(doc, "languageStyleMixing", EmptyObject), "corrections", <<>>),
               "current")
  \o <<"}">>

\* three backticks; "tick" is the backtick character
Fence == <<"tick", "tick", "tick">>

\* the first replace of the fence stripping: the opening fence, an optional
\* json tag and one line break
stripOpenFence(lines) ==
  LET afterTicks == SubSeq(lines[1], 4, Len(lines[1]))
      rest       == IF startsWith(afterTicks, <<"j", "s", "o", "n">>)
                    THEN SubSeq(afterTicks, 5, Len(afterTicks)) ELSE afterTicks
  IN  IF rest = <<>> /\ Len(lines) > 1 THEN Tail(lines) ELSE <<rest>> \o Tail(lines)

\* the second replace: one line break and a fence at the very end
stripCloseFence(lines) ==
  LET n    == Len(lines)
      last == lines[n]
  IN  IF Len(last) >= 3 /\ SubSeq(last, Len(last) - 2, Len(last)) = Fence
      THEN IF Len(last) = 3 /\ n > 1 THEN SubSeq(lines, 1, n - 1)
           ELSE SubSeq(lines, 1, n - 1) \o <<SubSeq(last, 1, Len(last) - 3)>>
      ELSE lines

stripFence(lines) ==
  IF startsWith(lines[1], Fence) THEN stripCloseFence(stripOpenFence(lines)) ELSE lines

\* a JSON number without a fraction: -?(0|[1-9][0-9]*)([eE][+-]?[0-9]+)?
isJsonNumber(s) ==
  LET body == IF s # <<>> /\ Head(s) = "-" THEN Tail(s) ELSE s
      int  == digitPrefix(body)
      exp  == SubSeq(body, Len(int) + 1, Len(body))
      expDigits == IF Len(exp) >= 2 /\ exp[2] \in {"+", "-"}
                   THEN SubSeq(exp, 3, Len(exp)) ELSE SubSeq(exp, 2, Len(exp))
  IN  /\ int # <<>>
      /\ (Len(int) > 1 => Head(int) # "0")
      /\ \/ exp = <<>>
         \/ exp[1] \in {"e", "E"} /\ allDigits(expDigits)

\* the text of the one non-blank line of a text, <<>> when it has none or several
onlyLine(lines) ==
  LET keep == {i \in DOMAIN lines : ~IsBlank(lines[i])}
  IN  IF Cardinality(keep) = 1 THEN trim(lines[CHOOSE i \in keep : TRUE]) ELSE <<>>

\* JSON.parse(cleaned) throws
jsonParseThrows(cleaned, doc) ==
  LET t == onlyLine(cleaned)
  IN  ~ \/ t = payloadLine(doc)
        \/ isJsonNumber(t)
        \/ t \in {<<"t", "r", "u", "e">>, <<"f", "a", "l", "s", "e">>, <<"n", "u", "l", "l">>}

\* JSON.parse(cleaned) when it does not throw; a number or a boolean has none
\* of the keys the parser reads
jsonParse(cleaned, doc) ==
  LET t == onlyLine(cleaned)
  IN  IF t = payloadLine(doc) THEN doc
      ELSE IF t = <<"n", "u", "l", "l">> THEN Null
      ELSE EmptyObject

HeaderTokens ==
  { <<"@">> \o HSpelling, <<"@">> \o HMixing, <<"@">> \o HPunctuation, <<"@">> \o HStyle,
    <<"@">> \o HTone, <<"@">> \o HEuphony, <<"@">> \o HContent }

\* the TOON format check of parseAIResponse
hasHeaderToken(trimmed) == \E token \in HeaderTokens : textIncludes(trimmed, token)

\* the object built in the try block of parseAIResponse, before validation
jsonResponse(json) ==
  [spellingErrors      |-> field(json, "spellingErrors", <<>>),
   languageStyleMixing |-> field(json, "languageStyleMixing", [detected |-> FALSE]),
   punctuationIssues   |-> field(json, "punctuationIssues", <<>>),
   euphonyImprovements |-> field(json, "euphonyImprovements", <<>>),
   styleConversions    |-> field(json, "styleConversions", <<>>),
   toneConversions     |-> field(json, "toneConversions", <<>>),
   contentAnalysis     |-> field(json, "contentAnalysis", Null)]

\* the JSON fallback with a catch block that answers the empty aggregate
parseJsonFallbackLenient(trimmed, doc, wordCount) ==
  LET cleaned == stripFence(trimmed)
  IN  IF jsonParseThrows(cleaned, doc) THEN EmptyResponse
      ELSE LET json == jsonParse(cleaned, doc)
           IN  IF json = Null THEN EmptyResponse
               ELSE LET result == jsonResponse(json)
                    IN  IF validateSpellingErrorsThrows(result.spellingErrors,
                                                        maxErrors(wordCount))
                        THEN EmptyResponse
                        ELSE [result EXCEPT !.spellingErrors =
                                validateSpellingErrors(@, maxErrors(wordCount))]

\* the JSON fallback of parseAIResponse: the try block, Null from the catch
parseJsonFallback(trimmed, doc, wordCount) ==
  LET cleaned == stripFence(trimmed)
  IN  IF jsonParseThrows(cleaned, doc) THEN Null
      ELSE LET json == jsonParse(cleaned, doc)
           IN  IF json = Null THEN Null
               ELSE LET result == jsonResponse(json)
                    IN  IF validateSpellingErrorsThrows(result.spellingErrors,
                                                        maxErrors(wordCount))
                        THEN Null
                        ELSE [result EXCEPT !.spellingErrors =
                                validateSpellingErrors(@, maxErrors(wordCount))]

parseAIResponse(r, wordCount) ==
  LET trimmed == trimText(r.lines)
  IN  IF hasHeaderToken(trimmed) THEN parseUnifiedToon(trimmed, wordCount)
      ELSE parseJsonFallback(trimmed, r.doc, wordCount)

(***************************************************************************)
(* Inputs                                                                  *)
(***************************************************************************)
\* the longest section body and the longest JSON array
MaxBody == 3

\* the largest small word count
MaxWords == 3

\* lines of a big SPELLING section beyond the flat cap
MaxExtra == 2

BoundedSeq(S, n) == UNION {[1..k -> S] : k \in 0..n}

BnLetters == <<"ka", "kha", "ga", "gha", "nga", "ca", "cha", "ja">>

\* lines of the pipe-delimited sections
PipeLines ==
  { <<"ka", "kha", "|", "ga", "gha", "|", "1">>,
    <<" ", "ka", "kha", " ", "|", "ga", "gha", ",", "ka", "kha", "|", "nga", "|", "2">>,
    <<"h", "e", "l", "l", "o", "|", "ga", "gha", "|", "nga", "|", "3">>,
    <<"1", "2", "|", "ga", "gha", "|", "1">>,
    <<"ga", "A", " ", "\t", "kha", "|", "ka", "|", "nga", "|", "0">>,
    <<"ga", "a", " ", "kha", "|", "ka", "|", "nga", "|", "5">>,
    <<"ga", "gha", "|", ",", "|", "2">>,
    <<"ka", "kha", "|", "ga", "gha">> }

MixingLines ==
  PipeLines \cup
  { <<"C", "O", "R", "R", "E", "C", "T", "I", "O", "N", "S">>,
    <<"@", "C", "O", "R", "R", "E", "C", "T", "I", "O", "N", "S">>,
    <<"d", "e", "t", "e", "c", "t", "e", "d", ":", "t", "r", "u", "e">> }

PunctuationLines ==
  { <<"i", "s", "s", "u", "e", ":", "ga">>,
    <<"c", "u", "r", ":", "ka", "kha">>,
    <<"c", "u", "r", ":", " ", "K", "A", " ">>,
    <<"c", "u", "r", ":", "k", "a">>,
    <<"f", "i", "x", ":", "ga", "gha">>,
    <<"-", "-", "-">>,
    <<"-", "-", "-", "-">>,
    <<>> }

ContentLines ==
  { <<"t", "y", "p", "e", ":", "ka">>,
    <<"m", "i", "s", "s", "i", "n", "g", ":", "ka", ",", "kha", ",", "ga", ",", "gha", ",",
      "nga", ",", "ca">>,
    <<"t", "i", "p", "s", ":", "ka", ",", ",", "kha">>,
    <<"d", "e", "s", "c", ":">> }

TextRaw(lines) == [lines |-> lines, doc |-> EmptyObject]

Section(header, lib) == {TextRaw(<< <<"@">> \o header >> \o body) : body \in BoundedSeq(lib, MaxBody)}

SectionInputs ==
  Section(HSpelling, PipeLines) \cup Section(HTone, PipeLines) \cup Section(HStyle, PipeLines)
  \cup Section(HEuphony, PipeLines) \cup Section(HMixing, MixingLines)
  \cup Section(HPunctuation, PunctuationLines) \cup Section(HContent, ContentLines)

\* texts without a section header: prose, a number, an unknown bracket header
PlainInputs ==
  { TextRaw(<< <<"h", "e", "l", "l", "o">> >>),
    TextRaw(<< <<"1", "2">> >>),
    TextRaw(<< <<>>, <<" ", "1", "e", "2">>, <<>> >>),
    TextRaw(<< <<"n", "u", "l", "l">> >>),
    TextRaw(<< <<"ka", "kha", "|", "ga", "gha", "|", "1">> >>),
    TextRaw(<< <<"[", "[">> \o HSpelling \o <<"]", "]">>,
               <<"ka", "kha", "|", "ga", "gha", "|", "1">> >>),
    TextRaw(<< <<"@", "s", "p", "e", "l", "l", "i", "n", "g">>,
               <<"ka", "kha", "|", "ga", "gha", "|", "1">> >>),
    TextRaw(<< <<"ka", " ", "@">> \o HTone, <<"ka", "kha", "|", "ga", "gha", "|", "nga", "|", "1">> >>) }

\* the i-th of 64 distinct two-letter words
BigWord(i) == <<BnLetters[((i - 1) \div 8) + 1], BnLetters[((i - 1) % 8) + 1]>>

BigLines(n) == [i \in 1..n |-> BigWord(i) \o <<"|", "ka", "|", "1">>]

BigInputs ==
  {TextRaw(<< <<"@">> \o HSpelling >> \o BigLines(MaxSpellingErrors + k)) : k \in 0..MaxExtra}

(***************************************************************************)
(* JSON documents: one populated key each, entries from a small library   *)
(***************************************************************************)
JsonSpellingEntries ==
  { [wrong |-> <<"ka", "kha">>, suggestions |-> << <<"ga", "gha">> >>, position |-> 1],
    [wrong |-> <<" ", "K", "A", "kha", " ">>, suggestions |-> << <<"ga">> >>, position |-> 2],
    [wrong |-> <<"k", "a", "kha">>, suggestions |-> << <<"ga">> >>],
    [wrong |-> <<"h", "e", "l", "l", "o">>, suggestions |-> << <<"ga">> >>, position |-> 3],
    [wrong |-> <<"1", "2", "3">>, suggestions |-> << <<"ga">> >>, position |-> 1],
    [wrong |-> <<"ga", "gha">>, suggestions |-> <<>>, position |-> 0],
    [wrong |-> <<"ca", "cha">>, position |-> 4],
    [wrong |-> <<"ka", "kha", " ">>, suggestions |-> << <<"gha">> >>, position |-> 7],
    [suggestions |-> << <<"ga">> >>, position |-> 4] }

JsonToneEntries ==
  { [current |-> <<"ka", "kha">>, suggestion |-> <<"ga">>, reason |-> <<"nga">>, position |-> 1],
    [current |-> <<"ka", "kha", " ">>, suggestion |-> <<"gha">>, reason |-> <<>>, position |-> 2],
    [current |-> <<"ga">>, suggestion |-> <<"gha">>, reason |-> <<>>, position |-> 0] }

JsonStyleEntries ==
  { [current |-> <<"ka", "kha">>, suggestion |-> <<"ga">>, type |-> <<"nga">>, position |-> 1],
    [current |-> <<"K", "A">>, suggestion |-> <<"gha">>, type |-> <<>>, position |-> 2],
    [current |-> <<"k", "a">>, suggestion |-> <<"gha">>, type |-> <<>>, position |-> 0] }

JsonEuphonyEntries ==
  { [current |-> <<"ka", "kha">>, suggestions |-> << <<"ga">> >>, reason |-> <<>>, position |-> 1],
    [current |-> <<"ka", "kha">>, suggestions |-> << <<"gha">> >>, reason |-> <<>>, position |-> 2] }

JsonPunctuationEntries ==
  { [issue |-> <<"ga">>, currentSentence |-> <<"ka", "kha">>, correctedSentence |-> <<"ka">>,
     explanation |-> <<>>, position |-> 1],
    [issue |-> <<"gha">>, currentSentence |-> <<"ka", "kha">>, correctedSentence |-> <<"kha">>,
     explanation |-> <<>>, position |-> 2] }

JsonDocs ==
  {[spellingErrors |-> a] : a \in BoundedSeq(JsonSpellingEntries, MaxBody)}
  \cup {[toneConversions |-> a] : a \in BoundedSeq(JsonToneEntries, MaxBody)}
  \cup {[styleConversions |-> a] : a \in BoundedSeq(JsonStyleEntries, MaxBody)}
  \cup {[euphonyImprovements |-> a] : a \in BoundedSeq(JsonEuphonyEntries, MaxBody)}
  \cup {[punctuationIssues |-> a] : a \in BoundedSeq(JsonPunctuationEntries, MaxBody)}
  \cup {[languageStyleMixing |-> [detected |-> TRUE, corrections |-> a]] :
          a \in BoundedSeq(JsonStyleEntries, MaxBody)}
  \cup {[languageStyleMixing |-> [detected |-> TRUE]], EmptyObject}

JsonRaw(doc) == [lines |-> <<payloadLine(doc)>>, doc |-> doc]

\* a document between an opening fence line (tag: the text after the fence)
\* and a closing fence line
Fenced(doc, tag) == [lines |-> <<Fence \o tag, payloadLine(doc), Fence>>, doc |-> doc]

\* a document cut short: its text lacks the closing brace
Truncated(doc) ==
  [lines |-> <<SubSeq(payloadLine(doc), 1, Len(payloadLine(doc)) - 1)>>, doc |-> doc]

FenceDoc == [spellingErrors |-> << [wrong |-> <<"ka", "kha">>,
                                    suggestions |-> << <<"ga", "gha">> >>, position |-> 1] >>]

TokenDoc == [toneConversions |-> << [current |-> <<"@">> \o HTone, suggestion |-> <<"ga">>,
                                     reason |-> <<>>, position |-> 1] >>]

BigJson(n) ==
  [spellingErrors |-> [i \in 1..n |-> [wrong |-> BigWord(i), suggestions |-> << <<"ka">> >>,
                                       position |-> i]]]

\* a document whose content analysis lists n missing elements and n tips
ContentJson(n) ==
  [contentAnalysis |-> [contentType |-> <<"ka">>, description |-> <<>>,
                        missingElements |-> [i \in 1..n |-> BigWord(i)],
                        suggestions |-> [i \in 1..n |-> BigWord(i)]]]

JsonInputs ==
  {JsonRaw(doc) : doc \in JsonDocs}
  \cup {JsonRaw(ContentJson(n)) : n \in 0..(MaxContentItems + MaxExtra)}
  \cup {Fenced(FenceDoc, tag) : tag \in {<<>>, <<"j", "s", "o", "n">>, <<"j", "s">>, <<" ">>}}
  \cup { [lines |-> <<Fence \o <<"j", "s", "o", "n">> \o payloadLine(FenceDoc) \o Fence>>,
          doc |-> FenceDoc],
         [lines |-> <<payloadLine(FenceDoc), Fence>>, doc |-> FenceDoc],
         [lines |-> <<Fence, payloadLine(FenceDoc)>>, doc |-> FenceDoc],
         [lines |-> << <<>>, <<" ">> \o payloadLine(FenceDoc), <<>> >>, doc |-> FenceDoc],
         Truncated(FenceDoc), JsonRaw(TokenDoc) }
  \cup {JsonRaw(BigJson(MaxSpellingErrors + k)) : k \in 0..MaxExtra}

\* texts of several sections, the same header more than once included
MaxBlocks == 3

SectionBlocks ==
  { << <<"@">> \o HSpelling, <<"ka", "kha", "|", "ga", "gha", "|", "1">> >>,
    << <<"@">> \o HSpelling, <<"ga", "a", " ", "kha", "|", "ka", "|", "nga", "|", "5">> >>,
    << <<"@">> \o HTone, <<"h", "e", "l", "l", "o", "|", "ga", "gha", "|", "nga", "|", "3">> >>,
    << <<"@">> \o HTone, <<"ga", "a", " ", "kha", "|", "ka", "|", "nga", "|", "5">> >>,
    << <<"@">> \o HPunctuation, <<"c", "u", "r", ":", "ka", "kha">> >>,
    << <<"@", "N", "O", "T", "E">>, <<"ga", "gha", "|", "ka", "kha", "|", "nga", "|", "4">> >> }

RECURSIVE concatAll(_)
concatAll(seqs) == IF seqs = <<>> THEN <<>> ELSE Head(seqs) \o concatAll(Tail(seqs))

MultiInputs ==
  {TextRaw(concatAll(blocks)) : blocks \in UNION {[1..k -> SectionBlocks] : k \in 2..MaxBlocks}}

RawInputs == SectionInputs \cup PlainInputs \cup BigInputs \cup JsonInputs \cup MultiInputs

\* the word counts tried: not passed, 0..MaxWords, and one large enough for
\* the flat cap to be the smaller bound
BigWords == 2 * MaxSpellingErrors + MaxWords

WordCounts == {<<>>} \cup {<<w>> : w \in 0..MaxWords} \cup {<<BigWords>>}

(***************************************************************************)
(* analyzeText (src/utils/api.ts) after the response has arrived           *)
(***************************************************************************)
\* Math.ceil(wordCount * 0.3) for a natural number
ceilThreeTenths(w) == (3 * w + 9) \div 10

\* the condition of the final validation of analyzeText
finalTrimTaken(r, words) ==
  LET result == parseAIResponse(r, <<words>>)
  IN  result # Null /\ Len(result.spellingErrors) > words

\* the parse and the final validation of analyzeText for a response text r
\* and a selected text of words words
analyzeParsed(r, words) ==
  LET result == parseAIResponse(r, <<words>>)
  IN  IF result # Null /\ Len(result.spellingErrors) > words
      THEN [result EXCEPT !.spellingErrors = slice(@, ceilThreeTenths(words))]
      ELSE result

(***************************************************************************)
(* The App component: suggestion state, accept, dismiss, analysis          *)
(***************************************************************************)
\* normalize of ./utils/normalize: case-insensitive, white space collapsed
normalize(text) == collapseSpaces(toLowerCase(trim(text)))

\* prev.filter(e => isNotMatch(e[key]))
rejectMatches(arr, key, target) == SelectSeq(arr, LAMBDA e : normalize(e[key]) # target)

\* the updater given to setLanguageStyleMixing by handleReplace and dismissSuggestion
\* the mixing updater with the report kept when no correction is left
filterMixingKeepsEmpty(prev, target) ==
  IF prev = Null \/ ~Has(prev, "corrections") THEN prev
  ELSE [prev EXCEPT !.corrections = rejectMatches(prev.corrections, "current", target)]

\* the updater passed to setLanguageStyleMixing by handleReplace and by
\* dismissSuggestion
filterMixing(prev, target) ==
  IF prev = Null \/ ~Has(prev, "corrections") THEN prev
  ELSE LET filtered == rejectMatches(prev.corrections, "current", target)
       IN  IF Len(filtered) > 0 THEN [prev EXCEPT !.corrections = filtered] ELSE Null

\* a.position ?? 0
positionOf(e) == IF Has(e, "position") THEN e.position ELSE 0

\* an insertion that puts e before the entries of its own position
insertByPosBeforeTies(sorted, e) ==
  SelectSeq(sorted, LAMBDA x : positionOf(x) < positionOf(e)) \o <<e>>
  \o SelectSeq(sorted, LAMBDA x : positionOf(x) >= positionOf(e))

\* arr.sort((a, b) => (a.position ?? 0) - (b.position ?? 0)) : stable
\* e put behind the entries of sorted that do not come after it
insertByPos(sorted, e) ==
  SelectSeq(sorted, LAMBDA x : positionOf(x) <= positionOf(e)) \o <<e>>
  \o SelectSeq(sorted, LAMBDA x : positionOf(x) > positionOf(e))

RECURSIVE sortByPos(_)
sortByPos(arr) ==
  IF arr = <<>> THEN <<>>
  ELSE CHOOSE out \in {insertByPos(sorted, arr[Len(arr)]) :
                         sorted \in {sortByPos(SubSeq(arr, 1, Len(arr) - 1))}} : TRUE

\* Math.round(((words - errors) / words) * 100) for words > 0
accuracyOf(words, errors) == (200 * (words - errors) + words) \div (2 * words)

\* the six filtering updates of a successful handleReplace
removeEverywhere(st, target) ==
  [corrections         |-> rejectMatches(st.corrections, "wrong", target),
   toneSuggestions     |-> rejectMatches(st.toneSuggestions, "current", target),
   styleSuggestions    |-> rejectMatches(st.styleSuggestions, "current", target),
   euphonyImprovements |-> rejectMatches(st.euphonyImprovements, "current", target),
   punctuationIssues   |-> rejectMatches(st.punctuationIssues, "currentSentence", target),
   languageStyleMixing |-> filterMixing(st.languageStyleMixing, target)]

\* handleReplace without the update of punctuationIssues
handleReplaceSkipsPunctuation(st, oldText, success) ==
  IF success
  THEN [removeEverywhere(st, normalize(trim(oldText))) EXCEPT
          !.punctuationIssues = st.punctuationIssues]
  ELSE st

\* handleReplace without the test of success
handleReplaceIgnoresOutcome(st, oldText, success) ==
  removeEverywhere(st, normalize(trim(oldText)))

\* the suggestion state after handleReplace has learnt the outcome of
\* replaceInWord(oldText, ...): st holds the six pieces of React state
handleReplaceUpdate(st, oldText, success) ==
  IF success THEN removeEverywhere(st, normalize(trim(oldText))) ELSE st

\* dismissSuggestion removing the text from every category
dismissCascades(st, type, textToDismiss) == removeEverywhere(st, normalize(textToDismiss))

\* dismissSuggestion whose spelling case calls the setter of the tone list
dismissWrongSetter(st, type, textToDismiss) ==
  LET target == normalize(textToDismiss)
  IN  IF type = "spelling"
      THEN [st EXCEPT !.toneSuggestions = rejectMatches(st.corrections, "wrong", target)]
      ELSE IF type = "tone"
      THEN [st EXCEPT !.toneSuggestions = rejectMatches(@, "current", target)]
      ELSE IF type = "style"
      THEN [st EXCEPT !.styleSuggestions = rejectMatches(@, "current", target)]
      ELSE IF type = "mixing"
      THEN [st EXCEPT !.languageStyleMixing = filterMixing(@, target)]
      ELSE IF type = "punct"
      THEN [st EXCEPT !.punctuationIssues = rejectMatches(@, "currentSentence", target)]
      ELSE IF type = "euphony"
      THEN [st EXCEPT !.euphonyImprovements = rejectMatches(@, "current", target)]
      ELSE st

\* the suggestion state after dismissSuggestion(type, textToDismiss)
dismissUpdate(st, type, textToDismiss) ==
  LET target == normalize(textToDismiss)
  IN  IF type = "spelling"
      THEN [st EXCEPT !.corrections = rejectMatches(@, "wrong", target)]
      ELSE IF type = "tone"
      THEN [st EXCEPT !.toneSuggestions = rejectMatches(@, "current", target)]
      ELSE IF type = "style"
      THEN [st EXCEPT !.styleSuggestions = rejectMatches(@, "current", target)]
      ELSE IF type = "mixing"
      THEN [st EXCEPT !.languageStyleMixing = filterMixing(@, target)]
      ELSE IF type = "punct"
      THEN [st EXCEPT !.punctuationIssues = rejectMatches(@, "currentSentence", target)]
      ELSE IF type = "euphony"
      THEN [st EXCEPT !.euphonyImprovements = rejectMatches(@, "current", target)]
      ELSE st

\* the "Reset all states" block of checkSpelling
resetUpdate ==
  [corrections |-> <<>>, toneSuggestions |-> <<>>, styleSuggestions |-> <<>>,
   euphonyImprovements |-> <<>>, punctuationIssues |-> <<>>, languageStyleMixing |-> Null]

\* the mixing report checkSpelling installs for a detected report
installMixing(mixing) ==
  IF Has(mixing, "corrections") THEN [mixing EXCEPT !.corrections = sortByPos(@)] ELSE mixing

\* the "Set states" block of checkSpelling for a non-null result
installUpdate(st, result) ==
  [corrections         |-> sortByPos(result.spellingErrors),
   punctuationIssues   |-> sortByPos(result.punctuationIssues),
   euphonyImprovements |-> sortByPos(result.euphonyImprovements),
   toneSuggestions     |-> sortByPos(result.toneConversions),
   styleSuggestions    |-> sortByPos(result.styleConversions),
   languageStyleMixing |-> IF result.languageStyleMixing.detected
                           THEN installMixing(result.languageStyleMixing)
                           ELSE st.languageStyleMixing]

(***************************************************************************)
(* Responses the model may return to the App                               *)
(***************************************************************************)
\* concurrent checkSpelling invocations, pending handleReplace calls, and the
\* largest number of words of a selected text
MaxChecks == 1

MaxPending == 1

MaxAppWords == 3

LineA == <<"ka", "kha", "|", "ga", "gha", "|", "2">>

LineB == <<" ", "ka", "kha", " ", "|", "ga", "gha", ",", "ka", "kha", "|", "nga", "|", "2">>

LineC == <<"ga", "A", " ", "\t", "kha", "|", "ka", "|", "nga", "|", "0">>

LineD == <<"ga", "a", " ", "kha", "|", "ka", "|", "nga", "|", "5">>

LineDetected == <<"d", "e", "t", "e", "c", "t", "e", "d", ":", "t", "r", "u", "e">>

LineCorrections == <<"C", "O", "R", "R", "E", "C", "T", "I", "O", "N", "S">>

AppRaws ==
  { TextRaw(<< <<"@">> \o HSpelling, LineA, LineC,
               <<"@">> \o HTone, LineD, LineB,
               <<"@">> \o HMixing, LineDetected, LineCorrections, LineB,
               <<"@">> \o HPunctuation, <<"c", "u", "r", ":", "ka", "kha">> >>),
    TextRaw(<< <<"@">> \o HMixing, LineDetected, LineCorrections, LineD, LineB,
               <<"@">> \o HStyle, LineB,
               <<"@">> \o HEuphony, LineA >>),
    JsonRaw([languageStyleMixing |-> [detected |-> TRUE, corrections |-> <<>>],
             toneConversions |->
               << [current |-> <<"ka", "kha">>, suggestion |-> <<"ga">>, reason |-> <<>>,
                   position |-> 0],
                  [current |-> <<"ka", "kha", " ">>, suggestion |-> <<"gha">>,
                   reason |-> <<>>] >>]),
    TextRaw(<< <<"h", "e", "l", "l", "o">> >>) }

(***************************************************************************)
(* Position fields of the bracket format (utils/toon.ts)                   *)
(***************************************************************************)
\* parseNumber(val): every non-digit removed, the rest parsed; NaN gives -1
parseNumber(val) ==
  LET ds == SelectSeq(val, IsDigit)
  IN  IF ds = <<>> THEN 0 - 1 ELSE digitsValue(ds)

\* the longest position field
MaxField == 3

PositionChars == {"-", "1", "2", "a", " "}

PositionFields == BoundedSeq(PositionChars, MaxField)

(***************************************************************************)
(* Request counts (utils/api.ts)                                           *)
(***************************************************************************)
\* MODEL_LIMITS: the requests per day of each model
MODEL_LIMITS ==
  [m \in {"gemini-2.5-flash", "gemini-2.5-flash-lite", "gemini-2.0-flash", "default"} |->
     IF m = "gemini-2.0-flash" THEN 1500 ELSE 20]

\* getSafeLimit(model) = Math.floor(limits.rpd * 0.9)
getSafeLimit(model) ==
  LET rpd == IF model \in DOMAIN MODEL_LIMITS THEN MODEL_LIMITS[model] ELSE MODEL_LIMITS["default"]
  IN  (rpd * 9) \div 10

\* the models of the settings dialog that the model selects: one of the table
\* and one that falls back to the default entry
Models == {"gemini-2.5-flash", "gemini-1.5-pro"}

\* localStorage.getItem(storageKey) of a model without stored count
NoData == [date |-> 0, count |-> 0]

\* getRateLimitInfo(model) with the stored items store on the date day
getRateLimitInfoStrict(store, day, model) ==
  LET limit == getSafeLimit(model)
      saved == store[model]
      count == IF saved # NoData /\ saved.date = day THEN saved.count ELSE 0
  IN  [model |-> model, count |-> count, date |-> day, limit |-> limit,
       remaining |-> IF limit - count > 0 THEN limit - count ELSE 0,
       isLimited |-> count > limit]

getRateLimitInfo(store, day, model) ==
  LET limit == getSafeLimit(model)
      saved == store[model]
      count == IF saved # NoData /\ saved.date = day THEN saved.count ELSE 0
  IN  [model |-> model, count |-> count, date |-> day, limit |-> limit,
       remaining |-> IF limit - count > 0 THEN limit - count ELSE 0,
       isLimited |-> count >= limit]

\* the stored items after incrementRequestCount(model)
incrementRequestCount(store, day, model) ==
  LET current  == getRateLimitInfo(store, day, model)
      newCount == IF current.date = day THEN current.count + 1 ELSE 1
  IN  [store EXCEPT ![model] = [date |-> day, count |-> newCount]]

\* the stored items after the 429 branch of analyzeText
markLimited(store, day, model) ==
  [store EXCEPT ![model] = [date |-> day, count |-> getSafeLimit(model)]]

\* the clicks on the check button that the model follows
MaxCalls == 2

\* the days the model lets pass
MaxDays == 2

IdleCall == [pc |-> "idle", model |-> ""]

\* an invocation of checkSpelling that has ended
DoneCall == [pc |-> "done", model |-> ""]

\* what earlier sessions may have stored for a model: nothing, the limit
\* reached on an earlier day, or one request left today
StoredBefore(model) ==
  {NoData, [date |-> 0, count |-> getSafeLimit(model)],
   [date |-> 1, count |-> getSafeLimit(model) - 1]}

NoCall == [op |-> "none", model |-> "", slot |-> 0]

VARIABLES
  raw, wordCount, result, pc,                       \* one call of parseAIResponse
  apiKey, corrections, toneSuggestions, styleSuggestions, languageStyleMixing,
  punctuationIssues, euphonyImprovements, contentAnalysis, stats, isLoading,
  message,                                          \* React state of App
  replacing,                                        \* handleReplace calls awaiting replaceInWord
  checks,                                           \* checkSpelling invocations
  installed,                                        \* what the latest analysis installed
  lastOp,                                           \* the latest reconciler operation
  posField, decoded,                                \* one position field and its decodings
  requests, today,                                  \* localStorage request counts, the date
  selectedModel, rateLimitInfo,                     \* React state of the App with rate limits
  calls,                                            \* its checkSpelling invocations
  lastCall, limitedOn                               \* the latest analyzeText step, the 429s seen

parseVars == <<raw, wordCount, result, pc>>

suggVars == <<corrections, toneSuggestions, styleSuggestions, languageStyleMixing,
              punctuationIssues, euphonyImprovements>>

appVars == <<apiKey, corrections, toneSuggestions, styleSuggestions, languageStyleMixing,
             punctuationIssues, euphonyImprovements, contentAnalysis, stats, isLoading,
             message, replacing, checks, installed, lastOp>>

posVars == <<posField, decoded>>

limitVars == <<requests, today, selectedModel, rateLimitInfo, calls, lastCall, limitedOn>>

sideVars == <<posVars, limitVars>>

vars == <<parseVars, appVars, sideVars>>

\* the six pieces of suggestion state as one record
Sugg ==
  [corrections |-> corrections, toneSuggestions |-> toneSuggestions,
   styleSuggestions |-> styleSuggestions, euphonyImprovements |-> euphonyImprovements,
   punctuationIssues |-> punctuationIssues, languageStyleMixing |-> languageStyleMixing]

SetSugg(st) ==
  /\ corrections' = st.corrections
  /\ toneSuggestions' = st.toneSuggestions
  /\ styleSuggestions' = st.styleSuggestions
  /\ euphonyImprovements' = st.euphonyImprovements
  /\ punctuationIssues' = st.punctuationIssues
  /\ languageStyleMixing' = st.languageStyleMixing

\* no operation that overlapped the latest one
NoPrev == [op |-> "none", text |-> <<>>, type |-> "", success |-> FALSE]

\* left: the handleReplace calls still pending when the operation completed;
\* prev: the operation completed before it while it was pending
NoOp == [op |-> "none", text |-> <<>>, type |-> "", success |-> FALSE, left |-> 0,
         prev |-> NoPrev]

InitialStats == [totalWords |-> 0, errorCount |-> 0, accuracy |-> 100]

IdleCheck == [pc |-> "idle", words |-> 0]

ParseIdle ==
  /\ raw = TextRaw(<< <<>> >>)
  /\ wordCount = <<>>
  /\ result = Null
  /\ pc = "unused"

\* the state of a mounted App before any interaction, with room for slots
\* invocations of checkSpelling
AppIdleWith(slots) ==
  /\ apiKey = FALSE
  /\ corrections = <<>>
  /\ toneSuggestions = <<>>
  /\ styleSuggestions = <<>>
  /\ languageStyleMixing = Null
  /\ punctuationIssues = <<>>
  /\ euphonyImprovements = <<>>
  /\ contentAnalysis = Null
  /\ stats = InitialStats
  /\ isLoading = FALSE
  /\ message = "none"
  /\ replacing = <<>>
  /\ checks = [i \in 1..slots |-> IdleCheck]
  /\ installed = resetUpdate
  /\ lastOp = NoOp

AppIdle == AppIdleWith(MaxChecks)

\* no position field under decoding
PosIdle ==
  /\ posField = <<>>
  /\ decoded = Null

\* a mounted App with the first model selected and nothing stored
LimitIdle ==
  /\ requests = [m \in Models |-> NoData]
  /\ today = 1
  /\ selectedModel = "gemini-2.5-flash"
  /\ rateLimitInfo = getRateLimitInfo([m \in Models |-> NoData], 1, "gemini-2.5-flash")
  /\ calls = [i \in 1..MaxCalls |-> IdleCall]
  /\ lastCall = NoCall
  /\ limitedOn = [m \in Models |-> 0]

SideIdle == PosIdle /\ LimitIdle

(***************************************************************************)
(* SpecParse: one call parseAIResponse(raw, wordCount)                     *)
(***************************************************************************)
InitParse ==
  /\ raw \in RawInputs
  /\ wordCount \in WordCounts
  /\ result = Null
  /\ pc = "input"
  /\ AppIdle
  /\ SideIdle

\* result = parseAIResponse(raw, wordCount)
Parse ==
  /\ pc = "input"
  /\ result' = parseAIResponse(raw, wordCount)
  /\ pc' = "parsed"
  /\ UNCHANGED <<raw, wordCount, appVars, sideVars>>

NextParse == Parse

SpecParse == InitParse /\ [][NextParse]_vars

(***************************************************************************)
(* Spec: the App component                                                 *)
(***************************************************************************)
Init ==
  /\ ParseIdle
  /\ AppIdle
  /\ SideIdle

\* the primary key texts on display: the buttons of an entry pass its key
DisplayedKeys(type) ==
  IF type = "spelling" THEN {e.wrong : e \in Range(corrections)}
  ELSE IF type = "tone" THEN {e.current : e \in Range(toneSuggestions)}
  ELSE IF type = "style" THEN {e.current : e \in Range(styleSuggestions)}
  ELSE IF type = "euphony" THEN {e.current : e \in Range(euphonyImprovements)}
  ELSE IF type = "punct" THEN {e.currentSentence : e \in Range(punctuationIssues)}
  ELSE IF languageStyleMixing # Null /\ Has(languageStyleMixing, "corrections")
       THEN {e.current : e \in Range(languageStyleMixing.corrections)}
       ELSE {}

Types == {"spelling", "tone", "style", "mixing", "punct", "euphony"}

\* the API key input of the settings dialog: a key is typed
SetApiKey ==
  /\ ~apiKey
  /\ apiKey' = TRUE
  /\ UNCHANGED <<parseVars, sideVars, suggVars, contentAnalysis, stats, isLoading, message, replacing,
                 checks, installed, lastOp>>

\* the timer of showMessage clears the message
MessageTimeout ==
  /\ message # "none"
  /\ message' = "none"
  /\ UNCHANGED <<parseVars, sideVars, apiKey, suggVars, contentAnalysis, stats, isLoading, replacing,
                 checks, installed, lastOp>>

\* handleReplace(oldText, ...) up to its await of replaceInWord
ReplaceStart ==
  \E type \in Types : \E oldText \in DisplayedKeys(type) :
    /\ Len(replacing) < MaxPending
    /\ replacing' = Append(replacing, oldText)
    /\ UNCHANGED <<parseVars, sideVars, apiKey, suggVars, contentAnalysis, stats, isLoading, message,
                   checks, installed, lastOp>>

\* handleReplace with setters that filter the lists captured when the
\* analysis installed them, instead of updater functions on the current lists
ReplaceFinishFromSnapshot ==
  \E i \in DOMAIN replacing : \E success \in BOOLEAN :
    /\ \E st \in {IF success THEN handleReplaceUpdate(installed, replacing[i], TRUE)
                   ELSE Sugg} : SetSugg(st)
    /\ message' = IF success THEN "success" ELSE "error"
    /\ replacing' = SubSeq(replacing, 1, i - 1) \o SubSeq(replacing, i + 1, Len(replacing))
    /\ lastOp' = [op |-> "accept", text |-> replacing[i], type |-> "", success |-> success,
                  left |-> Len(replacing) - 1,
                  prev |-> IF lastOp.op \in {"accept", "dismiss"} /\ i <= lastOp.left
                           THEN [k \in DOMAIN NoPrev |-> lastOp[k]] ELSE NoPrev]
    /\ UNCHANGED <<parseVars, sideVars, apiKey, contentAnalysis, stats, isLoading, checks, installed>>

\* handleReplace after replaceInWord has answered success
ReplaceFinish ==
  \E i \in DOMAIN replacing : \E success \in BOOLEAN :
    /\ \E st \in {handleReplaceUpdate(Sugg, replacing[i], success)} : SetSugg(st)
    /\ message' = IF success THEN "success" ELSE "error"
    /\ replacing' = SubSeq(replacing, 1, i - 1) \o SubSeq(replacing, i + 1, Len(replacing))
    /\ lastOp' = [op |-> "accept", text |-> replacing[i], type |-> "", success |-> success,
                  left |-> Len(replacing) - 1,
                  prev |-> IF lastOp.op \in {"accept", "dismiss"} /\ i <= lastOp.left
                           THEN [k \in DOMAIN NoPrev |-> lastOp[k]] ELSE NoPrev]
    /\ UNCHANGED <<parseVars, sideVars, apiKey, contentAnalysis, stats, isLoading, checks, installed>>

\* dismissSuggestion(type, textToDismiss)
Dismiss ==
  \E type \in Types : \E textToDismiss \in DisplayedKeys(type) :
    /\ \E st \in {dismissUpdate(Sugg, type, textToDismiss)} : SetSugg(st)
    /\ lastOp' = [op |-> "dismiss", text |-> textToDismiss, type |-> type, success |-> TRUE,
                  left |-> Len(replacing), prev |-> NoPrev]
    /\ UNCHANGED <<parseVars, sideVars, apiKey, contentAnalysis, stats, isLoading, message, replacing,
                   checks, installed>>

\* checkSpelling up to its await of getTextFromWord; the button that calls it
\* is disabled while isLoading
CheckStart ==
  \E i \in DOMAIN checks :
    /\ checks[i].pc = "idle"
    /\ ~isLoading
    /\ IF ~apiKey
       THEN /\ message' = "error"
            /\ UNCHANGED checks
       ELSE /\ checks' = [checks EXCEPT ![i].pc = "getText"]
            /\ UNCHANGED message
    /\ UNCHANGED <<parseVars, sideVars, apiKey, suggVars, contentAnalysis, stats, isLoading, replacing,
                   installed, lastOp>>

\* checkSpelling from the answer of getTextFromWord (a text of words words) up
\* to its await of clearHighlights
CheckGotText ==
  \E i \in DOMAIN checks : \E words \in 0..MaxAppWords :
    /\ checks[i].pc = "getText"
    /\ IF words = 0
       THEN /\ message' = "error"
            /\ checks' = [checks EXCEPT ![i] = IdleCheck]
            /\ UNCHANGED <<suggVars, contentAnalysis, stats, isLoading, installed, lastOp>>
       ELSE /\ isLoading' = TRUE
            /\ SetSugg(resetUpdate)
            /\ contentAnalysis' = Null
            /\ stats' = InitialStats
            /\ installed' = resetUpdate
            /\ lastOp' = [NoOp EXCEPT !.op = "reset"]
            /\ checks' = [checks EXCEPT ![i] = [pc |-> "clear", words |-> words]]
            /\ UNCHANGED message
    /\ UNCHANGED <<parseVars, sideVars, apiKey, replacing>>

\* clearHighlights resolves and checkSpelling awaits analyzeText
CheckCleared ==
  \E i \in DOMAIN checks :
    /\ checks[i].pc = "clear"
    /\ checks' = [checks EXCEPT ![i].pc = "analyze"]
    /\ UNCHANGED <<parseVars, sideVars, apiKey, suggVars, contentAnalysis, stats, isLoading, message,
                   replacing, installed, lastOp>>

\* clearHighlights rejects: the await is before the try block, so the
\* rejection leaves checkSpelling at once, past its catch and finally blocks
CheckClearRejected ==
  \E i \in DOMAIN checks :
    /\ checks[i].pc = "clear"
    /\ checks' = [checks EXCEPT ![i] = IdleCheck]
    /\ UNCHANGED <<parseVars, sideVars, apiKey, suggVars, contentAnalysis, stats, isLoading, message,
                   replacing, installed, lastOp>>

\* the finally block of checkSpelling
CheckFinally(i, text) ==
  /\ isLoading' = FALSE
  /\ message' = text
  /\ checks' = [checks EXCEPT ![i] = IdleCheck]

\* analyzeText throws: the catch and finally blocks of checkSpelling
CheckFailed ==
  \E i \in DOMAIN checks :
    /\ checks[i].pc = "analyze"
    /\ CheckFinally(i, "error")
    /\ UNCHANGED <<parseVars, sideVars, apiKey, suggVars, contentAnalysis, stats, replacing, installed,
                   lastOp>>

\* analyzeText answers: checkSpelling up to its await of batchHighlightAll
CheckAnalyzed ==
  \E i \in DOMAIN checks :
    /\ checks[i].pc = "analyze"
    /\ \E r \in AppRaws : \E res \in {analyzeParsed(r, checks[i].words)} :
      /\ IF res = Null
         THEN /\ CheckFinally(i, "error")
              /\ UNCHANGED <<suggVars, contentAnalysis, stats, installed, lastOp>>
         ELSE /\ \E st \in {installUpdate(Sugg, res)} :
                   SetSugg(st) /\ installed' = st
              /\ contentAnalysis' = IF Has(res, "contentAnalysis") /\ res.contentAnalysis # Null
                                    THEN res.contentAnalysis
                                    ELSE contentAnalysis
              /\ stats' = [totalWords |-> checks[i].words,
                           errorCount |-> Len(res.spellingErrors),
                           accuracy   |-> accuracyOf(checks[i].words, Len(res.spellingErrors))]
              /\ lastOp' = With(With([NoOp EXCEPT !.op = "install", !.left = Len(replacing)],
                                      "aggregate", res),
                                 "trimmed", finalTrimTaken(r, checks[i].words))
              /\ checks' = [checks EXCEPT ![i].pc = "highlight"]
              /\ UNCHANGED <<isLoading, message>>
      /\ UNCHANGED <<parseVars, sideVars, apiKey, replacing>>

\* batchHighlightAll resolves or throws: the rest of checkSpelling
CheckHighlighted ==
  \E i \in DOMAIN checks : \E ok \in BOOLEAN :
    /\ checks[i].pc = "highlight"
    /\ CheckFinally(i, IF ok THEN "success" ELSE "error")
    /\ UNCHANGED <<parseVars, sideVars, apiKey, suggVars, contentAnalysis, stats, replacing, installed,
                   lastOp>>

Next ==
  \/ SetApiKey
  \/ MessageTimeout
  \/ ReplaceStart
  \/ ReplaceFinish
  \/ Dismiss
  \/ CheckStart
  \/ CheckGotText
  \/ CheckCleared
  \/ CheckClearRejected
  \/ CheckFailed
  \/ CheckAnalyzed
  \/ CheckHighlighted

Spec == Init /\ [][Next]_vars

(***************************************************************************)
(* SpecStarts: the check button alone, clicked up to MaxStarts times while *)
(* earlier invocations of checkSpelling are still running                  *)
(***************************************************************************)
MaxStarts == 2

InitStarts ==
  /\ ParseIdle
  /\ AppIdleWith(MaxStarts)
  /\ SideIdle

NextStarts ==
  \/ SetApiKey
  \/ MessageTimeout
  \/ CheckStart
  \/ CheckGotText
  \/ CheckCleared
  \/ CheckClearRejected
  \/ CheckFailed
  \/ CheckAnalyzed
  \/ CheckHighlighted

SpecStarts == InitStarts /\ [][NextStarts]_vars

(***************************************************************************)
(* SpecOverlap: accepts and dismissals on the lists an analysis has        *)
(* installed, with up to MaxOverlap handleReplace calls already awaiting   *)
(* replaceInWord                                                           *)
(***************************************************************************)
MaxOverlap == 2

InitOverlap ==
  /\ ParseIdle
  /\ SideIdle
  /\ apiKey = TRUE
  /\ isLoading = FALSE
  /\ message = "none"
  /\ checks = [i \in 1..MaxChecks |-> IdleCheck]
  /\ \E r \in AppRaws : \E words \in 1..MaxAppWords :
       \E res \in {analyzeParsed(r, words)} :
         /\ res # Null
         /\ \E st \in {installUpdate(resetUpdate, res)} :
              /\ corrections = st.corrections
              /\ toneSuggestions = st.toneSuggestions
              /\ styleSuggestions = st.styleSuggestions
              /\ euphonyImprovements = st.euphonyImprovements
              /\ punctuationIssues = st.punctuationIssues
              /\ languageStyleMixing = st.languageStyleMixing
              /\ installed = st
         /\ contentAnalysis = res.contentAnalysis
         /\ stats = [totalWords |-> words,
                     errorCount |-> Len(res.spellingErrors),
                     accuracy   |-> accuracyOf(words, Len(res.spellingErrors))]
         /\ lastOp = With([NoOp EXCEPT !.op = "install"], "aggregate", res)
  /\ replacing \in BoundedSeq(UNION {DisplayedKeys(type) : type \in Types}, MaxOverlap)

NextOverlap ==
  \/ ReplaceStart
  \/ ReplaceFinish
  \/ Dismiss

SpecOverlap == InitOverlap /\ [][NextOverlap]_vars

(***************************************************************************)
(* SpecPosition: one position field through the decoders of the repository *)
(***************************************************************************)
InitPosition ==
  /\ ParseIdle
  /\ AppIdle
  /\ LimitIdle
  /\ posField \in PositionFields
  /\ decoded = Null

\* the position of the one record of a SPELLING line ending in the field
spellingPosition(fld) ==
  parseSpellingLines(<< <<"ka", "kha", "|", "ga", "gha", "|">> \o fld >>)[1].position

\* the position of the one record of a PUNCTUATION section with a pos: line
punctuationPosition(fld) ==
  parsePunctuationLines(<< <<"c", "u", "r", ":", "ka", "kha">>,
                           <<"p", "o", "s", ":">> \o fld >>)[1].position

\* the field decoded by parseNumber of the bracket format and by the section
\* parsers of the header format
DecodePosition ==
  /\ decoded = Null
  /\ decoded' = [toon        |-> parseNumber(posField),
                 spelling    |-> spellingPosition(posField),
                 punctuation |-> punctuationPosition(posField)]
  /\ UNCHANGED <<posField, parseVars, appVars, limitVars>>

NextPosition == DecodePosition

SpecPosition == InitPosition /\ [][NextPosition]_vars

(***************************************************************************)
(* SpecLimit: checkSpelling of the App with request counts, as far as the  *)
(* counts, the loading flag and the message go                             *)
(***************************************************************************)
InitLimit ==
  /\ ParseIdle
  /\ AppIdle
  /\ PosIdle
  /\ requests \in {store \in [Models -> UNION {StoredBefore(m) : m \in Models}] :
                     \A m \in Models : store[m] \in StoredBefore(m)}
  /\ today = 1
  /\ selectedModel \in Models
  /\ rateLimitInfo = getRateLimitInfo(requests, today, selectedModel)
  /\ calls = [i \in 1..MaxCalls |-> IdleCall]
  /\ lastCall = NoCall
  /\ limitedOn = [m \in Models |-> 0]

\* the user picks another model in the settings; the effect on selectedModel
\* reloads rateLimitInfo
SelectModel ==
  \E m \in Models \ {selectedModel} :
    /\ selectedModel' = m
    /\ rateLimitInfo' = getRateLimitInfo(requests, today, m)
    /\ UNCHANGED <<parseVars, appVars, posVars, requests, today, calls, lastCall, limitedOn>>

\* midnight passes
DayChange ==
  /\ today < MaxDays
  /\ today' = today + 1
  /\ UNCHANGED <<parseVars, appVars, posVars, requests, selectedModel, rateLimitInfo, calls,
                 lastCall, limitedOn>>

\* the catch and finally blocks of checkSpelling
LimitCatch(i, store) ==
  /\ rateLimitInfo' = getRateLimitInfo(store, today, calls[i].model)
  /\ message' = "error"
  /\ isLoading' = FALSE
  /\ calls' = [calls EXCEPT ![i] = DoneCall]

\* a click on the check button, which is disabled while isLoading or while
\* rateLimitInfo says limited: checkSpelling up to its await of getTextFromWord
LimitCheckStart ==
  \E i \in DOMAIN calls :
    /\ calls[i].pc = "idle"
    /\ \A j \in 1..(i - 1) : calls[j].pc # "idle"
    /\ ~isLoading
    /\ ~rateLimitInfo.isLimited
    /\ IF getRateLimitInfo(requests, today, selectedModel).isLimited
       THEN /\ message' = "error"
            /\ calls' = [calls EXCEPT ![i] = DoneCall]
       ELSE /\ calls' = [calls EXCEPT ![i] = [pc |-> "getText", model |-> selectedModel]]
            /\ UNCHANGED message
    /\ UNCHANGED <<parseVars, posVars, apiKey, suggVars, contentAnalysis, stats, isLoading,
                   replacing, checks, installed, lastOp, requests, today, selectedModel,
                   rateLimitInfo, lastCall, limitedOn>>

\* getTextFromWord answers: checkSpelling up to its await of clearHighlights
LimitGotText ==
  \E i \in DOMAIN calls : \E empty \in BOOLEAN :
    /\ calls[i].pc = "getText"
    /\ IF empty
       THEN /\ message' = "error"
            /\ calls' = [calls EXCEPT ![i] = DoneCall]
            /\ UNCHANGED isLoading
       ELSE /\ isLoading' = TRUE
            /\ calls' = [calls EXCEPT ![i].pc = "clear"]
            /\ UNCHANGED message
    /\ UNCHANGED <<parseVars, posVars, apiKey, suggVars, contentAnalysis, stats, replacing,
                   checks, installed, lastOp, requests, today, selectedModel, rateLimitInfo,
                   lastCall, limitedOn>>

\* clearHighlights resolves and analyzeText starts: its pre-check throws the
\* daily-limit error, or the request is sent
LimitAnalyzeStart ==
  \E i \in DOMAIN calls :
    /\ calls[i].pc = "clear"
    /\ IF getRateLimitInfo(requests, today, calls[i].model).isLimited
       THEN /\ LimitCatch(i, requests)
            /\ lastCall' = [op |-> "limited", model |-> calls[i].model, slot |-> i]
       ELSE /\ calls' = [calls EXCEPT ![i].pc = "fetch"]
            /\ lastCall' = [op |-> "sent", model |-> calls[i].model, slot |-> i]
            /\ UNCHANGED <<rateLimitInfo, message, isLoading>>
    /\ UNCHANGED <<parseVars, posVars, apiKey, suggVars, contentAnalysis, stats, replacing,
                   checks, installed, lastOp, requests, today, selectedModel, limitedOn>>

\* clearHighlights rejects: the await is outside the try block
LimitClearRejected ==
  \E i \in DOMAIN calls :
    /\ calls[i].pc = "clear"
    /\ calls' = [calls EXCEPT ![i] = DoneCall]
    /\ UNCHANGED <<parseVars, appVars, posVars, requests, today, selectedModel, rateLimitInfo,
                   lastCall, limitedOn>>

\* the request fails: no connection, HTTP 429, or another error status
LimitThrown ==
  \E i \in DOMAIN calls : \E outcome \in {"network", "429", "status"} :
    /\ calls[i].pc = "fetch"
    /\ \E store \in {IF outcome = "429" THEN markLimited(requests, today, calls[i].model)
                     ELSE requests} :
         /\ requests' = store
         /\ LimitCatch(i, store)
    /\ limitedOn' = IF outcome = "429" THEN [limitedOn EXCEPT ![calls[i].model] = today]
                    ELSE limitedOn
    /\ lastCall' = [op |-> outcome, model |-> calls[i].model, slot |-> i]
    /\ UNCHANGED <<parseVars, posVars, apiKey, suggVars, contentAnalysis, stats, replacing,
                   checks, installed, lastOp, today, selectedModel>>

\* analyzeText returns, null or a result: the count is incremented, and
\* checkSpelling ends or awaits batchHighlightAll
LimitReturned ==
  \E i \in DOMAIN calls : \E null \in BOOLEAN :
    /\ calls[i].pc = "fetch"
    /\ \E store \in {incrementRequestCount(requests, today, calls[i].model)} :
         /\ requests' = store
         /\ rateLimitInfo' = getRateLimitInfo(store, today, calls[i].model)
    /\ IF null
       THEN /\ message' = "error"
            /\ isLoading' = FALSE
            /\ calls' = [calls EXCEPT ![i] = DoneCall]
       ELSE /\ calls' = [calls EXCEPT ![i].pc = "highlight"]
            /\ UNCHANGED <<message, isLoading>>
    /\ lastCall' = [op |-> "returned", model |-> calls[i].model, slot |-> i]
    /\ UNCHANGED <<parseVars, posVars, apiKey, suggVars, contentAnalysis, stats, replacing,
                   checks, installed, lastOp, today, selectedModel, limitedOn>>

\* batchHighlightAll resolves or throws: the rest of checkSpelling
LimitHighlighted ==
  \E i \in DOMAIN calls : \E ok \in BOOLEAN :
    /\ calls[i].pc = "highlight"
    /\ IF ok
       THEN /\ message' = "success"
            /\ isLoading' = FALSE
            /\ calls' = [calls EXCEPT ![i] = DoneCall]
            /\ UNCHANGED rateLimitInfo
       ELSE LimitCatch(i, requests)
    /\ UNCHANGED <<parseVars, posVars, apiKey, suggVars, contentAnalysis, stats, replacing,
                   checks, installed, lastOp, requests, today, selectedModel, lastCall,
                   limitedOn>>

NextLimit ==
  \/ SelectModel
  \/ DayChange
  \/ MessageTimeout
  \/ LimitCheckStart
  \/ LimitGotText
  \/ LimitAnalyzeStart
  \/ LimitClearRejected
  \/ LimitThrown
  \/ LimitReturned
  \/ LimitHighlighted

SpecLimit == InitLimit /\ [][NextLimit]_vars

(***************************************************************************)
(* Properties of parseAIResponse, stated on SpecParse                      *)
(***************************************************************************)
Parsed == pc = "parsed"

\* the call took the section-header path
viaHeader == hasHeaderToken(trimText(raw.lines))

\* JSON.parse threw on the text without its code fence
jsonThrew == jsonParseThrows(stripFence(trimText(raw.lines)), raw.doc)

\* no two entries of arr have keys equal after trimming, lower-casing and
\* collapsing whitespace runs
NoDup(arr, key) ==
  \A i, j \in DOMAIN arr : i # j => normalize(arr[i][key]) # normalize(arr[j][key])

mixingCorrections(mixing) ==
  IF mixing # Null /\ Has(mixing, "corrections") THEN mixing.corrections ELSE <<>>

\* an entry passes the content filters of the spelling collection
wellFormedSpelling(e) ==
  /\ Has(e, "wrong") /\ Has(e, "suggestions")
  /\ Len(e.wrong) >= 2
  /\ ~allDigits(e.wrong)
  /\ ~allLatin(e.wrong)
  /\ Len(e.suggestions) > 0

\* C1: for every word count w >= 0 passed, w = 0 included, a non-null result
\* has at most min(50, ceil(w / 2)) spelling entries, and at most 50 when no
\* word count is passed, on either path.
C1_SpellingCap ==
  Parsed /\ result # Null =>
    Len(result.spellingErrors) <=
      IF wordCount = <<>> THEN 50 ELSE Min(50, (wordCount[1] + 1) \div 2)

\* C2: in every non-null result, on either path, every spelling entry has a
\* wrong text of length >= 2 that is neither all digits nor all Latin letters,
\* and a non-empty suggestions list.
C2_SpellingFilters ==
  Parsed /\ result # Null =>
    \A i \in DOMAIN result.spellingErrors : wellFormedSpelling(result.spellingErrors[i])

\* a JSON document with a well-formed entry whose wrong text is hello was
\* parsed, and the result keeps another entry of it
C2_Witness ==
  /\ Parsed /\ result # Null /\ ~viaHeader
  /\ Len(result.spellingErrors) >= 1
  /\ \E i \in DOMAIN field(raw.doc, "spellingErrors", <<>>) :
       /\ field(raw.doc.spellingErrors[i], "wrong", <<>>) = <<"h", "e", "l", "l", "o">>
       /\ Len(field(raw.doc.spellingErrors[i], "suggestions", <<>>)) > 0

\* the collections parseUnifiedToon deduplicates are duplicate-free
dedupedCollectionsDistinct(res) ==
  /\ NoDup(res.spellingErrors, "wrong")
  /\ NoDup(res.toneConversions, "current")
  /\ NoDup(res.styleConversions, "current")
  /\ NoDup(res.euphonyImprovements, "current")
  /\ NoDup(mixingCorrections(res.languageStyleMixing), "current")

\* C3 as stated: in the aggregate of parseUnifiedToon every suggestion
\* collection, punctuationIssues (key currentSentence) included, has no two
\* entries with equal normalized keys.
C3_AllCollectionsDistinct ==
  Parsed /\ viaHeader =>
    /\ dedupedCollectionsDistinct(result)
    /\ NoDup(result.punctuationIssues, "currentSentence")

\* C3: in the aggregate of parseUnifiedToon the collections spellingErrors,
\* toneConversions, styleConversions, euphonyImprovements and
\* languageStyleMixing.corrections have no two entries with equal normalized
\* keys.
C3_DedupedCollectionsDistinct ==
  Parsed /\ viaHeader => dedupedCollectionsDistinct(result)

\* a TONE section with two lines whose keys differ in case and spacing only
\* was parsed to one entry
C3_Witness ==
  /\ Parsed
  /\ raw = TextRaw(<< <<"@">> \o HTone,
                      <<"ga", "A", " ", "\t", "kha", "|", "ka", "|", "nga", "|", "0">>,
                      <<"ga", "a", " ", "kha", "|", "ka", "|", "nga", "|", "5">> >>)
  /\ Len(result.toneConversions) = 1

\* C4: parseAIResponse returns null whenever the text holds no section header
\* token and JSON.parse of the text without its code fence throws; a non-null
\* result comes only with a header token found or a JSON parse that succeeded.
C4_NullIffNeitherPath ==
  Parsed =>
    /\ (~viaHeader /\ jsonThrew => result = Null)
    /\ (result # Null => viaHeader \/ ~jsonThrew)

\* a fenced document cut short was answered with null
C4_Witness ==
  /\ Parsed /\ ~viaHeader /\ jsonThrew /\ result = Null
  /\ raw = Truncated(FenceDoc)

\* C10: a result of the JSON fallback has every guarantee of a result of the
\* section-header path: the spelling cap, the spelling content filters, and
\* duplicate-free spelling, tone, style, euphony and mixing-correction
\* collections.
C10_JsonPathGuarantees ==
  Parsed /\ ~viaHeader /\ result # Null =>
    /\ Len(result.spellingErrors) <=
         IF wordCount = <<>> \/ wordCount[1] = 0 THEN 50
         ELSE Min(50, (wordCount[1] + 1) \div 2)
    /\ \A i \in DOMAIN result.spellingErrors : wellFormedSpelling(result.spellingErrors[i])
    /\ dedupedCollectionsDistinct(result)

(***************************************************************************)
(* Properties of the App component, stated on Spec                         *)
(***************************************************************************)
ListTypes == {"spelling", "tone", "style", "euphony", "punct"}

\* the React state and the primary key of each list category
stateField ==
  [spelling |-> "corrections", tone |-> "toneSuggestions", style |-> "styleSuggestions",
   euphony |-> "euphonyImprovements", punct |-> "punctuationIssues"]

keyField ==
  [spelling |-> "wrong", tone |-> "current", style |-> "current", euphony |-> "current",
   punct |-> "currentSentence"]

\* the entries of a category of suggestion state st
entriesOf(st, type) ==
  IF type = "mixing" THEN mixingCorrections(st.languageStyleMixing) ELSE st[stateField[type]]

keyOfType(type) == IF type = "mixing" THEN "current" ELSE keyField[type]

\* category type of st holds an entry whose normalized key is normalized t
holds(st, type, t) ==
  \E i \in DOMAIN entriesOf(st, type) :
    normalize(entriesOf(st, type)[i][keyOfType(type)]) = normalize(t)

\* the entries of a category of st whose normalized key is not normalized t
others(st, type, t) ==
  SelectSeq(entriesOf(st, type), LAMBDA e : normalize(e[keyOfType(type)]) # normalize(t))

afterAccept == lastOp.op = "accept" /\ lastOp.success

afterFailedAccept == lastOp.op = "accept" /\ ~lastOp.success

afterDismiss == lastOp.op = "dismiss"

\* the step in which a handleReplace call ends: only it shortens replacing
acceptStep == Len(replacing') < Len(replacing)

\* the step of a dismissSuggestion call: the text it names is on display, so
\* it changes a collection, and it touches no call in progress
dismissStep ==
  /\ lastOp'.op = "dismiss"
  /\ Sugg' # Sugg
  /\ replacing' = replacing
  /\ checks' = checks

\* C5: after an accept of text t whose replacement reports success, no
\* collection (spelling, tone, style, euphony, punctuation, mixing
\* corrections) holds an entry whose normalized key is normalized t.
C5_AcceptRemovesEverywhere ==
  afterAccept => \A type \in Types : ~holds(Sugg, type, lastOp.text)

\* a successful accept of a text that the latest analysis installed in the
\* spelling and in the tone list, and no list holds it
C5_Witness ==
  /\ afterAccept
  /\ holds(installed, "spelling", lastOp.text)
  /\ holds(installed, "tone", lastOp.text)
  /\ \A type \in Types : ~holds(Sugg, type, lastOp.text)

\* C6: when the replacement awaited by accept reports failure, every
\* collection and the mixing report are what they were before the call.
C6_FailedAcceptChangesNothing ==
  [][acceptStep /\ ~lastOp'.success => Sugg' = Sugg]_vars

\* a failed accept of a text that a spelling and a tone entry are keyed on
C6_Witness ==
  /\ afterFailedAccept
  /\ holds(Sugg, "spelling", lastOp.text)
  /\ holds(Sugg, "tone", lastOp.text)

\* C7: dismissSuggestion(category, t) removes from the named category every
\* entry whose normalized key is normalized t and leaves every other
\* category as it was.
C7_DismissOneCategory ==
  [][dismissStep =>
       \A type \in Types :
         entriesOf(Sugg', type) =
           IF type = lastOp'.type THEN others(Sugg, type, lastOp'.text)
           ELSE entriesOf(Sugg, type)]_vars

\* a tone entry was dismissed while a spelling entry with the same key stays
C7_Witness ==
  /\ afterDismiss /\ lastOp.type = "tone"
  /\ holds(installed, "tone", lastOp.text)
  /\ ~holds(Sugg, "tone", lastOp.text)
  /\ holds(Sugg, "spelling", lastOp.text)

\* the held report is detected with a corrections list that is empty
emptyDetectedReport ==
  /\ languageStyleMixing # Null
  /\ Has(languageStyleMixing, "detected") /\ languageStyleMixing.detected
  /\ Has(languageStyleMixing, "corrections") /\ Len(languageStyleMixing.corrections) = 0

\* a dismiss of category mixing or a successful accept removes the last
\* correction of the report
removesLastCorrection ==
  /\ \/ acceptStep /\ lastOp'.success
     \/ dismissStep /\ lastOp'.type = "mixing"
  /\ entriesOf(Sugg, "mixing") # <<>>
  /\ others(Sugg, "mixing", lastOp'.text) = <<>>

\* C8: when a dismiss of category mixing or a successful accept removes the
\* last correction of the mixing report, the report becomes absent; after
\* such an operation the report is never detected with an empty corrections
\* list.
C8_MixingCollapses ==
  /\ [](afterAccept \/ (afterDismiss /\ lastOp.type = "mixing") => ~emptyDetectedReport)
  /\ [][removesLastCorrection => languageStyleMixing' = Null]_vars

\* the one correction of the installed detected report was dismissed and the
\* report is absent
C8_Witness ==
  /\ afterDismiss /\ lastOp.type = "mixing"
  /\ Len(entriesOf(installed, "mixing")) = 1
  /\ installed.languageStyleMixing.detected
  /\ languageStyleMixing = Null

RECURSIVE IsSubseq(_, _)
\* a holds entries of b, in the order of b
IsSubseq(a, b) ==
  IF a = <<>> THEN TRUE
  ELSE IF b = <<>> THEN FALSE
  ELSE IF Head(a) = Head(b) THEN IsSubseq(Tail(a), Tail(b))
  ELSE IsSubseq(a, Tail(b))

\* every category of st holds entries of the same category of from, in order
subsequenceOf(st, from) ==
  \A type \in Types : IsSubseq(entriesOf(st, type), entriesOf(from, type))

\* a step of checkSpelling that resets or installs the collections
analysisStep ==
  \E i \in DOMAIN checks :
    \/ checks[i].pc = "getText" /\ checks'[i].pc = "clear"
    \/ checks[i].pc = "analyze" /\ checks'[i].pc = "highlight"

\* C9: between two analyses each collection is a subsequence of the one the
\* latest analysis installed, and a step that is not an analysis only removes
\* entries: what is removed is absent until the next analysis.
C9_OnlyRemovals ==
  /\ [](subsequenceOf(Sugg, installed))
  /\ [][~analysisStep => subsequenceOf(Sugg', Sugg)]_vars

\* after an accept or a dismiss one of the two installed spelling entries is
\* left
C9_Witness ==
  /\ lastOp.op \in {"accept", "dismiss"}
  /\ Len(installed.corrections) = 2
  /\ Len(corrections) = 1

(***************************************************************************)
(* Malformed items, stated on SpecParse                                    *)
(***************************************************************************)
\* the value JSON.parse returned for the text without its code fence
jsonDoc == jsonParse(stripFence(trimText(raw.lines)), raw.doc)

\* the spelling entries of the parsed JSON document
jsonSpellingEntries == field(jsonDoc, "spellingErrors", <<>>)

\* arr holds an entry whose key equals e's after normalisation
keptIn(arr, e) ==
  \E j \in DOMAIN arr : normalizeText(arr[j].wrong) = normalizeText(e.wrong)

\* C11: a malformed item (a spelling line or a JSON spelling entry lacking
\* its suggestions or its wrong text) is dropped on its own: on the header
\* path and on the JSON fallback alike the result is non-null, and below the
\* cap it keeps every well-formed entry of the JSON document.
C11_MalformedItemDroppedAlone ==
  Parsed /\ (viaHeader \/ (~jsonThrew /\ jsonDoc # Null)) =>
    /\ result # Null
    /\ ( /\ ~viaHeader
         /\ wordCount = <<>>
         /\ Len(jsonSpellingEntries) <= MaxSpellingErrors
         => \A i \in DOMAIN jsonSpellingEntries :
              wellFormedSpelling(jsonSpellingEntries[i])
                => keptIn(result.spellingErrors, jsonSpellingEntries[i]) )

(***************************************************************************)
(* The MIXING section, stated on SpecParse                                 *)
(***************************************************************************)
\* the lines under the header of a text whose first line is the header
bodyOf(header) ==
  IF Len(raw.lines) >= 1 /\ raw.lines[1] = <<"@">> \o header THEN Tail(raw.lines) ELSE <<>>

MarkerLines ==
  { <<"C", "O", "R", "R", "E", "C", "T", "I", "O", "N", "S">>,
    <<"@", "C", "O", "R", "R", "E", "C", "T", "I", "O", "N", "S">> }

\* the text is the one section of this header: the header line, then lines
\* of which none begins with @, the marker of the MIXING section apart
underHeader(header) ==
  /\ Len(raw.lines) >= 1 /\ raw.lines[1] = <<"@">> \o header
  /\ \A i \in 2..Len(raw.lines) :
       startsWith(raw.lines[i], <<"@">>)
         => header = HMixing /\ trim(raw.lines[i]) \in MarkerLines

isMetadataLine(line) ==
  /\ includes(line, <<":">>) /\ ~includes(line, <<"|">>)
  /\ trim(line) \notin MarkerLines

\* a pipe line with at least 4 fields and non-empty first two fields
isCorrectionLine(line) ==
  /\ includes(line, <<"|">>)
  /\ Len(pipeParts(trim(line))) >= 4
  /\ pipeParts(trim(line))[1] # <<>>
  /\ pipeParts(trim(line))[2] # <<>>

correctionOf(line) ==
  LET parts == pipeParts(trim(line))
  IN  [current |-> parts[1], suggestion |-> parts[2], type |-> parts[3],
       position |-> parseIntOr0(parts[4])]

\* body is metadata lines, the marker at index k, then at least one
\* correction line, the correction lines with pairwise distinct keys
mixingShape(body, k) ==
  /\ k \in DOMAIN body /\ k < Len(body)
  /\ trim(body[k]) \in MarkerLines
  /\ \A i \in 1..(k - 1) : isMetadataLine(body[i])
  /\ \A i \in (k + 1)..Len(body) : isCorrectionLine(body[i])
  /\ \A i, j \in (k + 1)..Len(body) :
       i # j => normalizeText(correctionOf(body[i]).current)
                  # normalizeText(correctionOf(body[j]).current)

\* C12: a MIXING section of metadata lines, then a marker line CORRECTIONS or
\* @CORRECTIONS, then pipe lines with at least 4 fields and non-empty first
\* two fields: parseUnifiedToon returns those lines, in order, as
\* languageStyleMixing.corrections, together with the detected flag of the
\* metadata.
C12_MixingCorrectionsParsed ==
  Parsed /\ underHeader(HMixing) =>
    \A k \in DOMAIN bodyOf(HMixing) :
      mixingShape(bodyOf(HMixing), k) =>
        /\ result # Null
        /\ mixingCorrections(result.languageStyleMixing)
             = [i \in 1..(Len(bodyOf(HMixing)) - k) |-> correctionOf(bodyOf(HMixing)[k + i])]
        /\ result.languageStyleMixing.detected
             = (\E i \in 1..(k - 1) :
                  trim(bodyOf(HMixing)[i])
                    = <<"d", "e", "t", "e", "c", "t", "e", "d", ":", "t", "r", "u", "e">>)

\* the same with the marker CORRECTIONS only
C12_PlainMarkerParsed ==
  Parsed /\ underHeader(HMixing) =>
    \A k \in DOMAIN bodyOf(HMixing) :
      mixingShape(bodyOf(HMixing), k) /\ Head(trim(bodyOf(HMixing)[k])) # "@" =>
        /\ result # Null
        /\ mixingCorrections(result.languageStyleMixing)
             = [i \in 1..(Len(bodyOf(HMixing)) - k) |-> correctionOf(bodyOf(HMixing)[k + i])]

(***************************************************************************)
(* The PUNCTUATION section, stated on SpecParse                            *)
(***************************************************************************)
\* the number of records of a PUNCTUATION body when a blank line, a line of
\* three or more hyphens and a second issue key each end the record under
\* construction; a record counts when it has an issue or a current sentence.
\* ident: the record under construction has one of the two; issue: it has an
\* issue
RECURSIVE recordGroups(_, _, _)
recordGroups(lines, ident, issue) ==
  IF lines = <<>> THEN (IF ident THEN 1 ELSE 0)
  ELSE LET t == trim(Head(lines))
       IN  IF t = <<>> \/ isSeparator(t)
           THEN (IF ident THEN 1 ELSE 0) + recordGroups(Tail(lines), FALSE, FALSE)
           ELSE IF indexOf(t, ":") > 1 /\ keyOf(t) \in IssueKeys
           THEN (IF issue THEN 1 ELSE 0) + recordGroups(Tail(lines), TRUE, TRUE)
           ELSE IF indexOf(t, ":") > 1 /\ keyOf(t) \in CurrentKeys
           THEN recordGroups(Tail(lines), TRUE, issue)
           ELSE recordGroups(Tail(lines), ident, issue)

\* C13: in the PUNCTUATION section a blank line, a line of three or more
\* hyphens and a second issue key each end the record under construction: a
\* body of N groups yields N issues (at most 15), none merged.
C13_EveryDelimiterFlushes ==
  Parsed /\ underHeader(HPunctuation) =>
    /\ result # Null
    /\ Len(result.punctuationIssues)
         = Min(recordGroups(bodyOf(HPunctuation), FALSE, FALSE), MaxPunctuation)

\* C14: every punctuation issue of a returned aggregate has a non-empty
\* currentSentence.
C14_CurrentSentenceNonEmpty ==
  Parsed /\ result # Null =>
    \A i \in DOMAIN result.punctuationIssues :
      /\ Has(result.punctuationIssues[i], "currentSentence")
      /\ result.punctuationIssues[i].currentSentence # <<>>

(***************************************************************************)
(* Field counts of the pipe-delimited sections, stated on SpecParse        *)
(***************************************************************************)
PipeSections == {HSpelling, HTone, HStyle, HEuphony, HMixing}

collectionOf(res, header) ==
  IF header = HSpelling THEN res.spellingErrors
  ELSE IF header = HTone THEN res.toneConversions
  ELSE IF header = HStyle THEN res.styleConversions
  ELSE IF header = HEuphony THEN res.euphonyImprovements
  ELSE mixingCorrections(res.languageStyleMixing)

\* the number of fields of a pipe line, 0 for a line without a pipe
fieldCount(line) == IF includes(line, <<"|">>) THEN Len(split(trim(line), "|")) ELSE 0

\* the lines of body with at least n fields
longLines(body, n) ==
  LET long(line) == fieldCount(line) >= n
  IN  SelectSeq(body, long)

\* body without its pipe lines of fewer than n fields and, outside MIXING
\* (where they are metadata and the marker), without its lines without a pipe
withoutShortLines(body, n, header) ==
  LET stays(line) == IF includes(line, <<"|">>) THEN fieldCount(line) >= n
                     ELSE header = HMixing
  IN  SelectSeq(body, stays)

\* with min[h] the minimum field count of section h: a section yields at most
\* one record per line of at least min[h] fields, and its result is the
\* result of the section without its shorter lines
fieldRule(min) ==
  Parsed =>
    \A h \in PipeSections :
      underHeader(h) =>
        /\ result # Null
        /\ Len(collectionOf(result, h)) <= Len(longLines(bodyOf(h), min[h]))
        /\ result = parseAIResponse(
                      TextRaw(<< <<"@">> \o h >> \o withoutShortLines(bodyOf(h), min[h], h)),
                      wordCount)

\* C15 as stated: a pipe line yields a record only with at least 3 fields in
\* the spelling section and at least 4 in the tone, style, euphony and
\* mixing-correction sections; a shorter line, or one without a pipe, yields
\* no record and does not affect the other lines.
C15_MinimumFieldsAsStated ==
  fieldRule([h \in PipeSections |-> IF h = HSpelling THEN 3 ELSE 4])

\* C15: the same with at least 3 fields in the spelling and euphony sections
\* and at least 4 in the tone, style and mixing-correction sections.
C15_MinimumFields ==
  fieldRule([h \in PipeSections |-> IF h \in {HSpelling, HEuphony} THEN 3 ELSE 4])

\* a TONE section with a line of three fields and a line of four fields was
\* parsed to the record of the second line alone
C15_Witness ==
  /\ Parsed
  /\ raw = TextRaw(<< <<"@">> \o HTone,
                      <<"ka", "kha", "|", "ga", "gha", "|", "1">>,
                      <<"h", "e", "l", "l", "o", "|", "ga", "gha", "|", "nga", "|", "3">> >>)
  /\ Len(result.toneConversions) = 1
  /\ result.toneConversions[1].current = <<"h", "e", "l", "l", "o">>

(***************************************************************************)
(* Ordering by position                                                    *)
(***************************************************************************)
sortedByPosition(arr) ==
  \A i, j \in DOMAIN arr : i < j => positionOf(arr[i]) <= positionOf(arr[j])

\* arr holds the entries of src, those of one position in the order of src
tiesInOrderOf(arr, src) ==
  /\ Len(arr) = Len(src)
  /\ \A p \in {positionOf(e) : e \in Range(src) \cup Range(arr)} :
       SelectSeq(arr, LAMBDA e : positionOf(e) = p)
         = SelectSeq(src, LAMBDA e : positionOf(e) = p)

PositionCollections ==
  {"spellingErrors", "punctuationIssues", "euphonyImprovements", "toneConversions",
   "styleConversions"}

\* C16 as stated: in the aggregate the parser returns, here the one
\* analyzeText hands to checkSpelling, every position-bearing collection is
\* ordered by ascending position.
C16_AssemblerSorted ==
  lastOp.op = "install" =>
    /\ \A c \in PositionCollections : sortedByPosition(lastOp.aggregate[c])
    /\ sortedByPosition(mixingCorrections(lastOp.aggregate.languageStyleMixing))

\* the collection of an aggregate behind a list of the App state
aggregateEntries(res, type) ==
  IF type = "spelling" THEN res.spellingErrors
  ELSE IF type = "tone" THEN res.toneConversions
  ELSE IF type = "style" THEN res.styleConversions
  ELSE IF type = "euphony" THEN res.euphonyImprovements
  ELSE IF type = "punct" THEN res.punctuationIssues
  ELSE mixingCorrections(res.languageStyleMixing)

\* C16: every list of the App state, the mixing corrections included, is
\* ordered by ascending position, a missing position counting as 0; right
\* after checkSpelling has installed an aggregate, each list holds the
\* entries of the aggregate's collection, entries of equal position in the
\* order of the aggregate.
C16_InstalledSorted ==
  /\ \A type \in Types : sortedByPosition(entriesOf(Sugg, type))
  /\ lastOp.op = "install" =>
       \A type \in ListTypes :
         tiesInOrderOf(entriesOf(Sugg, type), aggregateEntries(lastOp.aggregate, type))
  /\ lastOp.op = "install" /\ lastOp.aggregate.languageStyleMixing.detected =>
       tiesInOrderOf(entriesOf(Sugg, "mixing"), aggregateEntries(lastOp.aggregate, "mixing"))

\* an aggregate was installed whose two spelling entries came in descending
\* order of position, and the list on display holds them in ascending order
C16_Witness ==
  /\ lastOp.op = "install"
  /\ Len(lastOp.aggregate.spellingErrors) = 2
  /\ ~sortedByPosition(lastOp.aggregate.spellingErrors)
  /\ corrections = <<lastOp.aggregate.spellingErrors[2], lastOp.aggregate.spellingErrors[1]>>

(***************************************************************************)
(* Order of the sections, stated on SpecParse                              *)
(***************************************************************************)
\* the section blocks of a text: each starts at a line that begins with @
RECURSIVE blocksFrom(_, _)
blocksFrom(lines, cur) ==
  IF lines = <<>> THEN <<cur>>
  ELSE IF startsWith(Head(lines), <<"@">>) /\ cur # <<>>
       THEN <<cur>> \o blocksFrom(Tail(lines), <<Head(lines)>>)
       ELSE blocksFrom(Tail(lines), cur \o <<Head(lines)>>)

sectionBlocks == blocksFrom(raw.lines, <<>>)

\* the text of the blocks in the order p
permuted(blocks, p) == concatAll([i \in DOMAIN blocks |-> blocks[p[i]]])

\* every line of the text belongs to a section
startsWithHeader == Len(raw.lines) >= 1 /\ startsWith(raw.lines[1], <<"@">>)

\* the header of a block as the switch of parseUnifiedToon reads it
headerOf(block) == toUpperCase(trim(Tail(block[1])))

distinctHeaders(blocks) ==
  \A i, j \in DOMAIN blocks : i # j => headerOf(blocks[i]) # headerOf(blocks[j])

\* C17 as stated: permuting the section blocks of a text does not change the
\* aggregate of parseUnifiedToon, the same header occurring more than once
\* included.
C17_AnyOrderSameAggregate ==
  Parsed /\ viaHeader /\ startsWithHeader =>
    \A p \in Permutations(DOMAIN sectionBlocks) :
      parseAIResponse(TextRaw(permuted(sectionBlocks, p)), wordCount) = result

\* C17: permuting the section blocks of a text whose blocks have pairwise
\* distinct headers does not change the aggregate of parseUnifiedToon.
C17_DistinctHeadersAnyOrder ==
  Parsed /\ viaHeader /\ startsWithHeader /\ distinctHeaders(sectionBlocks) =>
    \A p \in Permutations(DOMAIN sectionBlocks) :
      parseAIResponse(TextRaw(permuted(sectionBlocks, p)), wordCount) = result

\* a text of a SPELLING, a PUNCTUATION and a TONE block was parsed, and each
\* of the three collections has its entry
C17_Witness ==
  /\ Parsed /\ wordCount = <<>>
  /\ Len(sectionBlocks) = 3
  /\ headerOf(sectionBlocks[1]) = HSpelling
  /\ headerOf(sectionBlocks[2]) = HPunctuation
  /\ headerOf(sectionBlocks[3]) = HTone
  /\ Len(result.spellingErrors) = 1
  /\ Len(result.punctuationIssues) = 1
  /\ Len(result.toneConversions) = 1

(***************************************************************************)
(* Invocations of checkSpelling, stated on SpecStarts                      *)
(***************************************************************************)
\* the invocations of checkSpelling that have started and not yet finished
inFlight == {i \in DOMAIN checks : checks[i].pc # "idle"}

\* C18: at most one analysis is in flight: from the start of checkSpelling
\* until it finishes, its await of the selected text included, no second
\* invocation has started.
C18_OneAnalysisInFlight == Cardinality(inFlight) <= 1

(***************************************************************************)
(* Overlapping accepts and dismissals, stated on SpecOverlap               *)
(***************************************************************************)
\* the latest operation is an accept that was awaiting replaceInWord while
\* another accept, or a dismissal, completed
overlapped == lastOp.op = "accept" /\ lastOp.prev.op # "none"

\* the removal of a completed operation shows in the state
removalShows(op) ==
  /\ op.op = "accept" /\ op.success => \A type \in Types : ~holds(Sugg, type, op.text)
  /\ op.op = "dismiss" => ~holds(Sugg, op.type, op.text)

\* C19: when two accepts were pending at once, or a dismissal ran while an
\* accept was pending, then after both have completed, in whichever order,
\* the state shows the removal of each: no update is lost.
C19_NoLostUpdate ==
  overlapped => removalShows(lastOp) /\ removalShows(lastOp.prev)

\* two accepts of different texts were pending at once, both succeeded, the
\* lists held both texts, and both have completed
C19_Witness ==
  /\ overlapped
  /\ lastOp.success
  /\ lastOp.prev.op = "accept" /\ lastOp.prev.success
  /\ normalize(lastOp.text) # normalize(lastOp.prev.text)
  /\ \E type \in Types : holds(installed, type, lastOp.text)
  /\ \E type \in Types : holds(installed, type, lastOp.prev.text)
  /\ replacing = <<>>

(***************************************************************************)
(* What a failed analysis leaves behind, stated on SpecStarts              *)
(***************************************************************************)
\* no entry in any list, no mixing report, no content analysis, no statistics
cleared ==
  /\ Sugg = resetUpdate
  /\ contentAnalysis = Null
  /\ stats = InitialStats

\* an invocation of checkSpelling passes its "Reset all states" block
resetStep == \E i \in DOMAIN checks : checks[i].pc = "getText" /\ checks'[i].pc = "clear"

\* an invocation of checkSpelling ends with analyzeText having answered null
\* or thrown
failedStep == \E i \in DOMAIN checks : checks[i].pc = "analyze" /\ checks'[i].pc = "idle"

\* C20: a starting analysis clears every list, the mixing report, the
\* content analysis and the statistics before it sends its request; when it
\* then answers null or throws, the state shown afterwards is the failure
\* message with everything still cleared, not a populated result.
C20_FailureShowsNothingStale ==
  [][ /\ resetStep => cleared'
      /\ failedStep => cleared' /\ message' = "error" ]_vars

(***************************************************************************)
(* removeDuplicates, stated on SpecParse                                   *)
(***************************************************************************)
\* the entries of arr at the indices of keep, in the order of arr
RECURSIVE entriesAt(_, _, _)
entriesAt(arr, keep, i) ==
  IF i > Len(arr) THEN <<>>
  ELSE (IF i \in keep THEN <<arr[i]>> ELSE <<>>) \o entriesAt(arr, keep, i + 1)

\* the first entry of each key (trimmed, lower-cased, whitespace runs
\* collapsed), in the order of arr
firstOccurrences(arr, key) ==
  entriesAt(arr,
            {i \in DOMAIN arr :
               \A j \in 1..(i - 1) : normalize(arr[j][key]) # normalize(arr[i][key])},
            1)

\* the JSON fallback answered a document read without a throw, below the cap
jsonSpellingUncapped ==
  /\ ~viaHeader /\ ~jsonThrew /\ result # Null
  /\ wordCount = <<>>
  /\ Len(jsonSpellingEntries) <= MaxSpellingErrors

\* C21: removeDuplicates returns the first occurrence of each normalized key,
\* in input order: the tone entries of a TONE section are the first
\* occurrences among its parsed lines, and the spelling entries of a JSON
\* document are the well-formed ones among the first occurrences of its
\* entries, so that entries differing by a trailing space collapse to the
\* first.
C21_FirstOccurrenceWins ==
  Parsed =>
    /\ underHeader(HTone) =>
         result.toneConversions = firstOccurrences(parseToneLines(bodyOf(HTone)), "current")
    /\ jsonSpellingUncapped =>
         result.spellingErrors
           = SelectSeq(firstOccurrences(jsonSpellingEntries, "wrong"), wellFormedSpelling)

\* a JSON document with a spelling entry, a second one whose wrong text has a
\* trailing space more, and a third one was parsed to the first and the third
C21_Witness ==
  /\ Parsed /\ jsonSpellingUncapped
  /\ Len(jsonSpellingEntries) = 3
  /\ jsonSpellingEntries[1].wrong = <<"ka", "kha">>
  /\ jsonSpellingEntries[2].wrong = <<"ka", "kha", " ">>
  /\ result.spellingErrors = <<jsonSpellingEntries[1], jsonSpellingEntries[3]>>

(***************************************************************************)
(* The content analysis, stated on SpecParse                               *)
(***************************************************************************)
\* C22: in every non-null result with a content analysis, whichever path
\* produced it, missingElements and suggestions hold at most 5 items each.
C22_ContentListsCapped ==
  Parsed /\ result # Null /\ result.contentAnalysis # Null =>
    /\ Len(field(result.contentAnalysis, "missingElements", <<>>)) <= 5
    /\ Len(field(result.contentAnalysis, "suggestions", <<>>)) <= 5

\* the same for the results of the section-header path
C22_HeaderPathCapped ==
  Parsed /\ viaHeader /\ result.contentAnalysis # Null =>
    /\ Len(result.contentAnalysis.missingElements) <= 5
    /\ Len(result.contentAnalysis.suggestions) <= 5

(***************************************************************************)
(* Position fields, stated on SpecPosition                                 *)
(***************************************************************************)
\* the decoders of the header format agree on every field
sectionParsersAgree == decoded # Null => decoded.spelling = decoded.punctuation

\* C23: a position field decodes to the number spelled by its digits, the
\* other characters removed, so no decoded position is negative; a field
\* without a digit decodes to the same value in every decoder.
C23_PositionDecoding ==
  decoded # Null =>
    LET ds == SelectSeq(posField, IsDigit)
    IN  /\ decoded.toon >= 0 /\ decoded.spelling >= 0 /\ decoded.punctuation >= 0
        /\ ds # <<>> => /\ decoded.toon = digitsValue(ds)
                        /\ decoded.spelling = digitsValue(ds)
                        /\ decoded.punctuation = digitsValue(ds)
        /\ ds = <<>> => /\ decoded.toon = decoded.spelling
                        /\ decoded.spelling = decoded.punctuation

(***************************************************************************)
(* Unknown sections, stated on SpecParse                                   *)
(***************************************************************************)
\* the header of a block as the loop of parseUnifiedToon reads it: the first
\* line of the trimmed section, in upper case; <<>> for a block the filter
\* of the split drops
headerRead(block) ==
  LET piece == IF startsWith(block[1], <<"@">>) THEN <<Tail(block[1])>> \o Tail(block)
               ELSE block
  IN  IF \A i \in DOMAIN piece : IsBlank(piece[i]) THEN <<>>
      ELSE toUpperCase(trim(trimText(piece)[1]))

KnownHeaders == {HSpelling, HMixing, HPunctuation, HEuphony, HStyle, HTone, HContent}

unknownSection(block) == headerRead(block) \notin KnownHeaders \cup {<<>>}

\* the text without its i-th block
withoutBlock(blocks, i) ==
  concatAll([j \in 1..(Len(blocks) - 1) |-> blocks[IF j < i THEN j ELSE j + 1]])

\* C24: the aggregate of a text with a section of unknown header equals the
\* aggregate of the text without that section.
C24_UnknownSectionIgnored ==
  Parsed /\ viaHeader =>
    \A i \in DOMAIN sectionBlocks :
      unknownSection(sectionBlocks[i]) =>
        parseUnifiedToon(withoutBlock(sectionBlocks, i), wordCount) = result

\* a text of a SPELLING block, a NOTE block with a line the spelling parser
\* would accept, and a TONE block was parsed: one entry each, none from NOTE
C24_Witness ==
  /\ Parsed /\ viaHeader /\ wordCount = <<>>
  /\ Len(sectionBlocks) = 3
  /\ headerRead(sectionBlocks[1]) = HSpelling
  /\ unknownSection(sectionBlocks[2])
  /\ parseSpellingLines(Tail(sectionBlocks[2])) # <<>>
  /\ headerRead(sectionBlocks[3]) = HTone
  /\ Len(result.spellingErrors) = 1
  /\ Len(result.toneConversions) = 1

(***************************************************************************)
(* The loading flag, stated on SpecStarts                                  *)
(***************************************************************************)
\* C25: an invocation of checkSpelling that set isLoading has set it back by
\* the time it finishes, whatever its awaited calls answer: with no
\* invocation in flight, isLoading is false and the check button is enabled.
C25_LoadingEndsWithInvocation == inFlight = {} => ~isLoading

(***************************************************************************)
(* Request counts, stated on SpecLimit                                     *)
(***************************************************************************)
\* the count stored for a model on the current day
storedCount(model) == getRateLimitInfo(requests, today, model).count

\* C26: in every reachable state the count stored for a model on the current
\* day is at most its safe limit.
C26_CountWithinLimit == \A m \in Models : storedCount(m) <= getSafeLimit(m)

\* a request is sent only while the stored count is below the limit
C26_SentBelowLimit ==
  [][\A i \in DOMAIN calls :
       calls[i].pc = "clear" /\ calls'[i].pc = "fetch" =>
         storedCount(calls[i].model) < getSafeLimit(calls[i].model)]_vars

\* the count grows by exactly 1 when analyzeText returns and does not grow
\* when it throws
C26_CountSteps ==
  [][\A i \in DOMAIN calls :
       calls[i].pc = "fetch" /\ calls'[i].pc # "fetch" =>
         LET m == calls[i].model
             after == getRateLimitInfo(requests', today', m).count
         IN  IF lastCall'.op = "returned" THEN after = storedCount(m) + 1
             ELSE IF lastCall'.op = "429" THEN after = getSafeLimit(m)
             ELSE after = storedCount(m)]_vars

\* the step in which the request of invocation i is answered with HTTP 429
got429(i) ==
  /\ calls[i].pc = "fetch"
  /\ calls'[i].pc = "done"
  /\ lastCall' = [op |-> "429", model |-> calls[i].model, slot |-> i]

\* C27: when analyzeText receives HTTP 429 for a model, the stored count of
\* that model becomes its safe limit and the counts of the other models stay;
\* from then on, while the date is the same, the model is limited and an
\* analyzeText call for it sends no request.
C27_LimitedAfter429 ==
  /\ [][\A i \in DOMAIN calls :
          got429(i) =>
            /\ requests'[calls[i].model]
                 = [date |-> today, count |-> getSafeLimit(calls[i].model)]
            /\ \A m \in Models \ {calls[i].model} : requests'[m] = requests[m]]_vars
  /\ [](\A m \in Models :
          limitedOn[m] = today => getRateLimitInfo(requests, today, m).isLimited)
  /\ [][\A i \in DOMAIN calls :
          calls[i].pc = "clear" /\ limitedOn[calls[i].model] = today =>
            /\ calls'[i].pc # "fetch"
            /\ (lastCall' # lastCall /\ lastCall'.slot = i) => lastCall'.op = "limited"]_vars

\* a model got a 429 today, and a later analyzeText call for it, from a
\* click made before the answer, has thrown the daily-limit error
C27_Witness ==
  \E m \in Models :
    /\ limitedOn[m] = today
    /\ lastCall.op = "limited"
    /\ lastCall.model = m

(***************************************************************************)
(* Accepts across analyses, stated on Spec                                 *)
(***************************************************************************)
\* the lists are as the latest analysis installed them, and every handleReplace
\* call in progress was already awaiting replaceInWord when it installed them
staleAcceptsOnly == lastOp.op = "install" /\ lastOp.left >= Len(replacing)

\* C28: an accept started against the suggestions of one analysis removes no
\* entry from the lists that a later analysis has installed, when its
\* replacement completes after that installation.
C28_StaleAcceptSparesNewLists ==
  [][acceptStep /\ staleAcceptsOnly => Sugg' = Sugg]_vars

(***************************************************************************)
(* Discarded punctuation records, stated on SpecParse                      *)
(***************************************************************************)
\* the lines between two separators give a record with neither an issue nor
\* a current sentence
discarded(group) ==
  LET st == parsePunctuationLoop([issues |-> <<>>, current |-> EmptyObject], group)
  IN  ~(Truthy(st.current, "issue") \/ Truthy(st.current, "currentSentence"))

\* the body without the lines of the records that are discarded at a
\* separator; cur holds the lines since the last separator
RECURSIVE withoutDiscarded(_, _)
withoutDiscarded(lines, cur) ==
  IF lines = <<>> THEN cur
  ELSE IF isSeparator(trim(Head(lines)))
       THEN (IF discarded(cur) THEN <<>> ELSE cur) \o <<Head(lines)>>
              \o withoutDiscarded(Tail(lines), <<>>)
       ELSE withoutDiscarded(Tail(lines), cur \o <<Head(lines)>>)

\* C29: in a PUNCTUATION section a record that has neither issue nor current
\* sentence when a separator is reached is discarded entirely: the issues are
\* those of the section without the lines of that record.
C29_DiscardedRecordLeavesNothing ==
  Parsed /\ underHeader(HPunctuation) =>
    result.punctuationIssues
      = parsePunctuationLines(withoutDiscarded(bodyOf(HPunctuation), <<>>))

(***************************************************************************)
(* The statistics, stated on Spec                                          *)
(***************************************************************************)
\* C30: after an analysis of a text of w >= 1 words has installed its
\* results, the error count of the statistics is at most w and the accuracy
\* is between 0 and 100; the final trimming branch of analyzeText was not
\* taken.
C30_StatsWithinWordCount ==
  /\ stats.totalWords >= 1 =>
       /\ stats.errorCount <= stats.totalWords
       /\ stats.accuracy \in 0..100
  /\ lastOp.op = "install" => ~lastOp.trimmed

\* a text of one word was analysed, the response had more spelling lines than
\* that, and the statistics show one error and accuracy 0
C30_Witness ==
  /\ lastOp.op = "install"
  /\ stats = [totalWords |-> 1, errorCount |-> 1, accuracy |-> 0]

====
